---- MODULE Spec2Model ----
(***************************************************************************)
(* Model of the conversation slicing tools of project-stardust:            *)
(*   slice_by_ranges.py  (explicit ranges and split-at boundaries)         *)
(*   split_convo.py      (inline [[SPLIT]] markers)                        *)
(*                                                                         *)
(* Python values are represented as follows.                               *)
(*   str        a sequence of one-character strings, "chat" is             *)
(*              <<"c","h","a","t">>                                        *)
(*   None / x   an optional value is a sequence of length at most one:     *)
(*              <<>> is None (or an absent key), <<x>> is the value x      *)
(*   list       a sequence                                                 *)
(*   dict       a record; a mapping (insertion ordered dict) is the        *)
(*              sequence of its values in insertion order                  *)
(*   tuple      a record with named fields                                 *)
(***************************************************************************)
EXTENDS Integers, Sequences, FiniteSets, TLC

VARIABLES
    tool,           \* what runs: "slice_by_ranges", "split_convo", or a function
                    \* of theirs called on its own
    pc,             \* position in main()
    raw,            \* the parsed input JSON document
    args,           \* the parsed command line (with the config defaults)
    msgs,           \* convo["messages"], the normalized message sequence
    slices_specs,   \* slice_by_ranges.main: ranges before clamping
    clean_specs,    \* slice_by_ranges.main: ranges after clamping
    enumerated,     \* slice_by_ranges.main: ranges after name disambiguation
    splits,         \* split_convo.main: result of find_splits
    ranges,         \* split_convo.slice_messages: local `ranges` (base names)
    slices,         \* split_convo.main: result of slice_messages
    slice_objs,     \* the slice documents built by the final loop of main()
    manifest,       \* manifest["slices"]
    err,            \* the uncaught exception that ended the run, or "none"
    call_args,      \* a function called on its own: the arguments passed
    result,         \* a function called on its own: what it returned or raised
    export,         \* extract_conversation: the export file read
    xargs,          \* extract_conversation: the parsed command line
    conversations,  \* extract_conversation.main: result of load_export
    matches,        \* extract_conversation.main: the (i, conv) pairs that match
    listing,        \* extract_conversation.main: the candidates listed on stderr
    written,        \* extract_conversation.main: the conversation written, if any
    status          \* the exit status of the process, None while it runs

\* The state of a direct call of a function.
callVars == <<call_args, result>>

\* The state of extract_conversation.
extractVars == <<export, xargs, conversations, matches, listing, written, status>>

vars == <<tool, pc, raw, args, msgs, slices_specs, clean_specs, enumerated,
          splits, ranges, slices, slice_objs, manifest, err, callVars, extractVars>>

----------------------------------------------------------------------------
(* Bounds of the exploration *)

MaxMsgs == 5

MaxNodes == 3

MaxRanges == 2

MaxCuts == 3

MaxConvs == 2

----------------------------------------------------------------------------
(* Python value helpers *)

None == <<>>

Some(x) == <<x>>

IsNone(o) == Len(o) = 0

\* Python truthiness of an optional string: None and "" are falsy.
TruthyStr(o) == Len(o) = 1 /\ Len(o[1]) > 0

\* Python truthiness of an optional number: None and 0 are falsy.
TruthyNum(o) == Len(o) = 1 /\ o[1] # 0

Min(a, b) == IF a <= b THEN a ELSE b

Max(a, b) == IF a >= b THEN a ELSE b

\* The letters used to build identifiers and contents that differ by position.
Letters == <<"a", "b", "c", "d", "e", "f", "g", "h">>

Letter(k) == <<Letters[((k - 1) % Len(Letters)) + 1]>>

----------------------------------------------------------------------------
(* Normalization: slice_by_ranges.load_convo and split_convo.normalize_convo *)

\* `a or b or c` over optional strings: the first truthy operand, else the last.
RECURSIVE OrChain(_)
OrChain(os) ==
    IF Len(os) = 1 THEN os[1]
    ELSE IF TruthyStr(os[1]) THEN os[1] ELSE OrChain(Tail(os))

\* key=lambda m: m.get("create_time") or 0
SortKey(m) == IF TruthyNum(m.create_time) THEN m.create_time[1] ELSE 0

\* InsertStable with x placed before the elements whose key equals its own.
RECURSIVE InsertBeforeEqual(_, _)
InsertBeforeEqual(sorted, x) ==
    IF sorted = <<>> THEN <<x>>
    ELSE IF SortKey(sorted[Len(sorted)]) < SortKey(x)
         THEN Append(sorted, x)
         ELSE Append(InsertBeforeEqual(SubSeq(sorted, 1, Len(sorted) - 1), x),
                     sorted[Len(sorted)])

\* One step of a stable sort: x goes after every element whose key is <= its own.
RECURSIVE InsertStable(_, _)
InsertStable(sorted, x) ==
    IF sorted = <<>> THEN <<x>>
    ELSE IF SortKey(sorted[Len(sorted)]) <= SortKey(x)
         THEN Append(sorted, x)
         ELSE Append(InsertStable(SubSeq(sorted, 1, Len(sorted) - 1), x),
                     sorted[Len(sorted)])

RECURSIVE SortByCreateTimeFrom(_, _)
SortByCreateTimeFrom(sorted, rest) ==
    IF rest = <<>> THEN sorted
    ELSE SortByCreateTimeFrom(InsertStable(sorted, rest[1]), Tail(rest))

\* list.sort(key=lambda m: m.get("create_time") or 0): stable, ascending.
SortByCreateTime(ms) == SortByCreateTimeFrom(<<>>, ms)

\* A piece of message text. m = TRUE is one occurrence of the [[SPLIT ...]]
\* pattern whose group(1) is g (None when the marker has no ": name" part);
\* m = FALSE is ordinary text g.
Text(s) == [m |-> FALSE, g |-> Some(s)]

Marker(g) == [m |-> TRUE, g |-> g]

Newline == Text(<<"\n">>)

\* sep.join(strs) over texts that are sequences of pieces.
RECURSIVE JoinWith(_, _)
JoinWith(strs, sep) ==
    IF strs = <<>> THEN <<>>
    ELSE IF Len(strs) = 1 THEN strs[1]
    ELSE strs[1] \o sep \o JoinWith(Tail(strs), sep)

\* "\n".join(p for p in parts if isinstance(p, str)); a part that is not a
\* string is None here.
JoinParts(parts) ==
    LET strs == SelectSeq(parts, LAMBDA p : ~IsNone(p))
    IN  JoinWith([k \in 1..Len(strs) |-> strs[k][1]], <<Newline>>)

\* The text of a mapping node's message: joined parts of a structured content,
\* a bare string verbatim, "" otherwise.
ContentText(content) ==
    IF content.kind = "dict" THEN JoinParts(content.parts)
    ELSE IF content.kind = "str" THEN content.text
    ELSE <<>>

\* msg.get("author", {}).get("role", "user")
RoleOf(msg) == IF IsNone(msg.author_role) THEN <<"u","s","e","r">> ELSE msg.author_role[1]

\* The nodes of a mapping that carry a message (`if not msg: continue`).
NodesWithMessage(mapping) == SelectSeq(mapping, LAMBDA nd : ~IsNone(nd.message))

\* LoadFlat with the entries put in timestamp order first, as the mapping
\* branch does.
LoadFlatSorted(messages) ==
    LET sorted == SortByCreateTime(messages)
    IN  [k \in 1..Len(sorted) |->
            [m |-> sorted[k], index |-> k - 1, orig_id |-> OrChain(sorted[k].idkeys)]]

\* slice_by_ranges.load_convo, flat list branch.
LoadFlat(messages) ==
    [k \in 1..Len(messages) |->
        [m |-> messages[k], index |-> k - 1, orig_id |-> OrChain(messages[k].idkeys)]]

\* slice_by_ranges.load_convo, mapping branch: the record built for one node.
NodeRec(nd) ==
    [role        |-> RoleOf(nd.message[1]),
     content     |-> ContentText(nd.message[1].content),
     create_time |-> nd.message[1].create_time,
     id          |-> IF TruthyStr(nd.message[1].id) THEN nd.message[1].id ELSE None,
     node_id     |-> nd.node_id]

LoadMapping(mapping) ==
    LET withMsg == NodesWithMessage(mapping)
        nodes   == SortByCreateTime([k \in 1..Len(withMsg) |-> NodeRec(withMsg[k])])
    IN  [k \in 1..Len(nodes) |->
            [m |-> nodes[k], index |-> k - 1,
             orig_id |-> IF TruthyStr(nodes[k].id) THEN nodes[k].id
                         ELSE Some(nodes[k].node_id)]]

\* Which of the two message shapes the document has.
HasMessagesList(r) == ~IsNone(r.messages)

HasMappingDict(r) == ~IsNone(r.mapping)

\* load_convo with the mapping looked at before the flat list.
LoadConvoMappingFirst(r) ==
    IF HasMappingDict(r) THEN LoadMapping(r.mapping[1])
    ELSE LoadFlat(r.messages[1])

\* slice_by_ranges.load_convo: the "messages" entry of the returned convo.
load_convo(r) ==
    IF HasMessagesList(r) THEN LoadFlat(r.messages[1])
    ELSE LoadMapping(r.mapping[1])

\* split_convo.normalize_convo, mapping branch: the record built for one node.
NormNodeRec(nd) ==
    [role        |-> RoleOf(nd.message[1]),
     content     |-> ContentText(nd.message[1].content),
     create_time |-> nd.message[1].create_time]

NormalizeMapping(mapping) ==
    LET withMsg == NodesWithMessage(mapping)
    IN  SortByCreateTime([k \in 1..Len(withMsg) |-> NormNodeRec(withMsg[k])])

\* split_convo.normalize_convo: convo["messages"].
normalize_convo(r) ==
    IF HasMessagesList(r) THEN r.messages[1]
    ELSE NormalizeMapping(r.mapping[1])

----------------------------------------------------------------------------
(* Boundary tokens and ranges: slice_by_ranges.py *)

Digits == <<"0", "1", "2", "3", "4", "5", "6", "7", "8", "9">>

IsDigit(c) == \E d \in 1..10 : Digits[d] = c

DigitVal(c) == (CHOOSE d \in 1..10 : Digits[d] = c) - 1

RECURSIVE NatOf(_)
NatOf(ds) ==
    IF ds = <<>> THEN 0
    ELSE 10 * NatOf(SubSeq(ds, 1, Len(ds) - 1)) + DigitVal(ds[Len(ds)])

AllDigits(ds) == Len(ds) > 0 /\ \A i \in 1..Len(ds) : IsDigit(ds[i])

\* Whether int(s) succeeds: an optional sign and at least one decimal digit.
\* (Surrounding blanks and digit separators, which int() also accepts, do not
\* occur in the strings explored.)
ParsesAsInt(s) ==
    IF Len(s) > 0 /\ s[1] \in {"-", "+"} THEN AllDigits(Tail(s)) ELSE AllDigits(s)

\* int(s) for a string that parses.
IntOf(s) ==
    IF s[1] = "-" THEN 0 - NatOf(Tail(s))
    ELSE IF s[1] = "+" THEN NatOf(Tail(s))
    ELSE NatOf(s)

\* str(n) for an integer n.
RECURSIVE StrOfNat(_)
StrOfNat(n) ==
    IF n < 10 THEN <<Digits[n + 1]>>
    ELSE StrOfNat(n \div 10) \o <<Digits[(n % 10) + 1]>>

StrOfInt(n) == IF n < 0 THEN <<"-">> \o StrOfNat(0 - n) ELSE StrOfNat(n)

\* s.split(":"): always at least one part.
RECURSIVE SplitColonFrom(_, _, _)
SplitColonFrom(s, cur, acc) ==
    IF s = <<>> THEN Append(acc, cur)
    ELSE IF s[1] = ":" THEN SplitColonFrom(Tail(s), <<>>, Append(acc, cur))
    ELSE SplitColonFrom(Tail(s), Append(cur, s[1]), acc)

SplitColon(s) == SplitColonFrom(s, <<>>, <<>>)

\* A boundary token is a Python int or a Python str.
IntTok(n) == [isint |-> TRUE, n |-> n, s |-> <<>>]

StrTok(s) == [isint |-> FALSE, n |-> 0, s |-> s]

IdPrefix == <<"i", "d", ":">>

StartsWithId(s) == Len(s) >= 3 /\ SubSeq(s, 1, 3) = IdPrefix

\* str(m.get("_orig_id") or "")
OrigIdStr(m) == IF TruthyStr(m.orig_id) THEN m.orig_id[1] ELSE <<>>

Returned(v) == [ok |-> TRUE, val |-> v, error |-> "none"]

Raised(e) == [ok |-> FALSE, val |-> 0, error |-> e]

\* index_for_token(messages, token): the index, or the ValueError raised.
index_for_token(messages, token) ==
    IF token.isint THEN Returned(token.n)
    ELSE IF StartsWithId(token.s)
    THEN LET needle == SubSeq(token.s, 4, Len(token.s))
             hits   == {k \in 1..Len(messages) : OrigIdStr(messages[k]) = needle}
         IN  IF hits = {} THEN Raised("Message ID not found")
             ELSE Returned(messages[CHOOSE k \in hits : \A j \in hits : k <= j].index)
    ELSE IF ParsesAsInt(token.s) THEN Returned(IntOf(token.s))
    ELSE Raised("Bad boundary token")

\* A range is the tuple (start, end_exclusive, name).
Range(a, b, name) == [a |-> a, b |-> b, name |-> name]

RangeReturned(a, b, name) == [ok |-> TRUE, range |-> Range(a, b, name), error |-> "none"]

RangeRaised(e) == [ok |-> FALSE, range |-> Range(0, 0, <<>>), error |-> e]

StrId == <<"i", "d">>

StrSlice == <<"s", "l", "i", "c", "e">>

StrWhole == <<"w", "h", "o", "l", "e">>

\* ResolveRange with the end token taken as already exclusive.
ResolveRangeExclusive(start_tok, end_tok, name, messages) ==
    LET ra == index_for_token(messages, StrTok(start_tok))
        rb == index_for_token(messages, StrTok(end_tok))
    IN  IF ~ra.ok THEN RangeRaised(ra.error)
        ELSE IF ~rb.ok THEN RangeRaised(rb.error)
        ELSE IF rb.val < ra.val THEN RangeReturned(rb.val, ra.val, name)
        ELSE RangeReturned(ra.val, rb.val, name)

\* ResolveRange without the swap of an inverted pair.
ResolveRangeNoSwap(start_tok, end_tok, name, messages) ==
    LET ra == index_for_token(messages, StrTok(start_tok))
        rb == index_for_token(messages, StrTok(end_tok))
    IN  IF ~ra.ok THEN RangeRaised(ra.error)
        ELSE IF ~rb.ok THEN RangeRaised(rb.error)
        ELSE RangeReturned(ra.val, rb.val + 1, name)

\* The tail of parse_range: both tokens are resolved, an inverted pair is
\* swapped and the inclusive end becomes end_exclusive = end + 1.
ResolveRange(start_tok, end_tok, name, messages) ==
    LET ra == index_for_token(messages, StrTok(start_tok))
        rb == index_for_token(messages, StrTok(end_tok))
    IN  IF ~ra.ok THEN RangeRaised(ra.error)
        ELSE IF ~rb.ok THEN RangeRaised(rb.error)
        ELSE IF rb.val < ra.val THEN RangeReturned(rb.val, ra.val + 1, name)
        ELSE RangeReturned(ra.val, rb.val + 1, name)

\* The name part of parse_range: the parts from position i on (1-based here),
\* joined by ":", or "slice" when there is none.
RangeName(parts, i) ==
    IF i <= Len(parts)
    THEN JoinWith(SubSeq(parts, i, Len(parts)), <<":">>)
    ELSE StrSlice

\* parse_range, from the end token on; i is the 1-based position of the first
\* part of the end token.
ParseEnd(parts, i, start_tok, messages) ==
    IF i > Len(parts) THEN RangeRaised("Missing end token in --range")
    ELSE IF parts[i] = StrId
    THEN IF i + 1 > Len(parts) THEN RangeRaised("Malformed end token in --range")
         ELSE ResolveRange(start_tok, IdPrefix \o parts[i + 1],
                           RangeName(parts, i + 2), messages)
    ELSE ResolveRange(start_tok, parts[i], RangeName(parts, i + 1), messages)

\* parse_range(rng, messages): (start, end_exclusive, name) or the ValueError.
parse_range(rng, messages) ==
    LET parts == SplitColon(rng)
    IN  IF Len(parts) < 2 THEN RangeRaised("--range must be start:end[:name]")
        ELSE IF parts[1] = StrId
        THEN ParseEnd(parts, 3, IdPrefix \o parts[2], messages)
        ELSE ParseEnd(parts, 2, parts[1], messages)

\* sorted(set(...)) of a finite set of integers.
RECURSIVE SortedSeq(_)
SortedSeq(S) ==
    IF S = {} THEN <<>>
    ELSE LET lo == CHOOSE x \in S : \A y \in S : x <= y
         IN  <<lo>> \o SortedSeq(S \ {lo})

\* slice_names[i] if slice_names and i < len(slice_names) else default_name
\* (i is 0-based as in the source).
NameAt(slice_names, i, default_name) ==
    IF i < Len(slice_names) THEN slice_names[i + 1] ELSE default_name

\* The loop of build_ranges_from_split_at over the sorted cut indices, from the
\* 0-based position i on, then the closing segment.
RECURSIVE CutLoop(_, _, _, _, _, _, _)
CutLoop(idxs, i, prev, acc, n, slice_names, default_name) ==
    IF i >= Len(idxs)
    THEN IF prev < n
         THEN Append(acc, Range(prev, n, NameAt(slice_names, Len(acc), default_name)))
         ELSE acc
    ELSE LET cut == idxs[i + 1]
         IN  IF cut > prev
             THEN CutLoop(idxs, i + 1, cut + 1,
                          Append(acc, Range(prev, cut + 1,
                                            NameAt(slice_names, i, default_name))),
                          n, slice_names, default_name)
             ELSE CutLoop(idxs, i + 1, prev, acc, n, slice_names, default_name)

\* The first token of a list that index_for_token rejects, if any.
FirstBadToken(tokens, messages) ==
    LET bad == {k \in 1..Len(tokens) : ~index_for_token(messages, StrTok(tokens[k])).ok}
    IN  IF bad = {} THEN 0 ELSE CHOOSE k \in bad : \A j \in bad : k <= j

\* CutIndices without the filter that discards indices outside [0, len).
CutIndicesUnfiltered(split_tokens, messages) ==
    SortedSeq({index_for_token(messages, StrTok(split_tokens[k])).val :
                  k \in 1..Len(split_tokens)})

\* The valid cut indices of build_ranges_from_split_at, deduplicated and sorted.
CutIndices(split_tokens, messages) ==
    SortedSeq({v \in {index_for_token(messages, StrTok(split_tokens[k])).val :
                        k \in 1..Len(split_tokens)} :
               0 <= v /\ v < Len(messages)})

ListReturned(rs) == [ok |-> TRUE, ranges |-> rs, error |-> "none"]

ListRaised(e) == [ok |-> FALSE, ranges |-> <<>>, error |-> e]

\* build_ranges_from_split_at(split_tokens, messages, default_name, slice_names)
build_ranges_from_split_at(split_tokens, messages, default_name, slice_names) ==
    IF split_tokens = <<>>
    THEN ListReturned(<<Range(0, Len(messages),
                             IF slice_names # <<>> THEN slice_names[1] ELSE default_name)>>)
    ELSE LET bad == FirstBadToken(split_tokens, messages)
         IN  IF bad # 0
             THEN ListRaised(index_for_token(messages, StrTok(split_tokens[bad])).error)
             ELSE ListReturned(CutLoop(CutIndices(split_tokens, messages), 0, 0, <<>>,
                                       Len(messages), slice_names, default_name))

\* The first range string of a list that parse_range rejects, if any.
FirstBadRange(rngs, messages) ==
    LET bad == {k \in 1..Len(rngs) : ~parse_range(rngs[k], messages).ok}
    IN  IF bad = {} THEN 0 ELSE CHOOSE k \in bad : \A j \in bad : k <= j

\* A construction of slices_specs that resolves the split-at tokens whenever
\* they are given, and uses the explicit ranges only without them.
build_slices_specs_split_at_first(a, messages) ==
    LET bad == FirstBadRange(a.range, messages)
        explicit == [k \in 1..Len(a.range) |-> parse_range(a.range[k], messages).range]
        built == build_ranges_from_split_at(a.split_at, messages,
                                            a.default_slice_name, a.slice_names)
        whole == <<Range(0, Len(messages), StrWhole)>>
    IN  IF bad # 0 THEN ListRaised(parse_range(a.range[bad], messages).error)
        ELSE IF a.split_at # <<>>
        THEN IF ~built.ok THEN built
             ELSE IF built.ranges = <<>> THEN ListReturned(whole)
             ELSE built
        ELSE IF explicit = <<>> THEN ListReturned(whole)
        ELSE ListReturned(explicit)

\* main(), the construction of slices_specs: the explicit ranges in the order
\* given; else the split-at ranges; else the whole conversation.
build_slices_specs(a, messages) ==
    LET bad == FirstBadRange(a.range, messages)
        explicit == [k \in 1..Len(a.range) |-> parse_range(a.range[k], messages).range]
        built == build_ranges_from_split_at(a.split_at, messages,
                                            a.default_slice_name, a.slice_names)
        whole == <<Range(0, Len(messages), StrWhole)>>
    IN  IF bad # 0 THEN ListRaised(parse_range(a.range[bad], messages).error)
        ELSE IF explicit = <<>> /\ a.split_at # <<>>
        THEN IF ~built.ok THEN built
             ELSE IF built.ranges = <<>> THEN ListReturned(whole)
             ELSE built
        ELSE IF explicit = <<>> THEN ListReturned(whole)
        ELSE ListReturned(explicit)

\* Clamp without the lower bound.
ClampUpperOnly(x, n) == Min(x, n)

\* max(0, min(x, len(msgs)))
Clamp(x, n) == Max(0, Min(x, n))

\* main(), the clamping loop: a range whose clamped bounds collapse is skipped;
\* an empty name becomes the configured default.
RECURSIVE clean(_, _, _)
clean(specs, n, default_name) ==
    IF specs = <<>> THEN <<>>
    ELSE LET a == Clamp(specs[1].a, n)
             b == Clamp(specs[1].b, n)
             nm == IF specs[1].name = <<>> THEN default_name ELSE specs[1].name
             rest == clean(Tail(specs), n, default_name)
         IN  IF b <= a THEN rest ELSE <<Range(a, b, nm)>> \o rest

\* name_counts[name] after the k-th range has been counted.
CountUpTo(specs, k) == Cardinality({j \in 1..k : specs[j].name = specs[k].name})

\* f"{name}-{count}"
Suffixed(name, count) == name \o <<"-">> \o StrOfInt(count)

\* enumerate_names with the suffix counting the repetitions only.
EnumerateCountingRepeats(specs) ==
    [k \in 1..Len(specs) |->
        Range(specs[k].a, specs[k].b,
              IF CountUpTo(specs, k) = 1 THEN specs[k].name
              ELSE Suffixed(specs[k].name, CountUpTo(specs, k) - 1))]

\* main(), the disambiguation loop of slice_by_ranges.
enumerate_names(specs) ==
    [k \in 1..Len(specs) |->
        Range(specs[k].a, specs[k].b,
              IF CountUpTo(specs, k) = 1 THEN specs[k].name
              ELSE Suffixed(specs[k].name, CountUpTo(specs, k)))]

\* msgs[a:b] for 0 <= a <= b <= len(msgs)
PySlice(messages, a, b) == SubSeq(messages, a + 1, b)

\* main(), the final loop of slice_by_ranges: slice_obj for the n-th range.
slice_obj(messages, rs, n) ==
    [slice         |-> rs[n].name,
     sequence      |-> n,
     range_indices |-> <<rs[n].a, rs[n].b - 1>>,
     messages      |-> PySlice(messages, rs[n].a, rs[n].b)]

\* main(), the final loop of slice_by_ranges: the manifest entry.
manifest_entry(rs, n) ==
    [slice                |-> rs[n].name,
     sequence             |-> n,
     approx_message_range |-> <<rs[n].a, rs[n].b - 1>>]

----------------------------------------------------------------------------
(* Marker based splitting: split_convo.py *)

IsSpace(c) == c \in {" ", "\t", "\n"}

RECURSIVE LStrip(_)
LStrip(s) == IF s # <<>> /\ IsSpace(s[1]) THEN LStrip(Tail(s)) ELSE s

RECURSIVE RStrip(_)
RStrip(s) ==
    IF s # <<>> /\ IsSpace(s[Len(s)]) THEN RStrip(SubSeq(s, 1, Len(s) - 1)) ELSE s

\* s.strip()
Strip(s) == RStrip(LStrip(s))

\* SPLIT_RE.search(content): the position of the first marker occurrence in
\* the content, 0 when there is none.
SearchMarker(content) ==
    LET hits == {k \in 1..Len(content) : content[k].m}
    IN  IF hits = {} THEN 0 ELSE CHOOSE k \in hits : \A j \in hits : k <= j

\* (mo.group(1) or "").strip()
MarkerName(item) == IF IsNone(item.g) THEN <<>> ELSE Strip(item.g[1])

Split(idx, name) == [idx |-> idx, name |-> name]

\* find_splits(messages): (idx, name) for every message holding a marker.
RECURSIVE FindSplitsFrom(_, _)
FindSplitsFrom(messages, k) ==
    IF k > Len(messages) THEN <<>>
    ELSE LET mo == SearchMarker(messages[k].content)
         IN  IF mo # 0
             THEN <<Split(k - 1, MarkerName(messages[k].content[mo]))>>
                  \o FindSplitsFrom(messages, k + 1)
             ELSE FindSplitsFrom(messages, k + 1)

find_splits(messages) == FindSplitsFrom(messages, 1)

\* MarkerLoop with the next segment starting at the marker itself.
RECURSIVE MarkerLoopKeepingMarker(_, _, _, _, _)
MarkerLoopKeepingMarker(sp, prev, acc, n, default_name) ==
    IF sp = <<>>
    THEN IF prev < n THEN Append(acc, Range(prev, n, default_name)) ELSE acc
    ELSE LET nm == IF sp[1].name = <<>> THEN default_name ELSE sp[1].name
         IN  MarkerLoopKeepingMarker(Tail(sp), sp[1].idx,
                        IF sp[1].idx > prev
                        THEN Append(acc, Range(prev, sp[1].idx, nm))
                        ELSE acc,
                        n, default_name)

\* slice_messages, the loop over the splits and the closing segment: the
\* local list `ranges`, with base names.
RECURSIVE MarkerLoop(_, _, _, _, _)
MarkerLoop(sp, prev, acc, n, default_name) ==
    IF sp = <<>>
    THEN IF prev < n THEN Append(acc, Range(prev, n, default_name)) ELSE acc
    ELSE LET nm == IF sp[1].name = <<>> THEN default_name ELSE sp[1].name
         IN  MarkerLoop(Tail(sp), sp[1].idx + 1,
                        IF sp[1].idx > prev
                        THEN Append(acc, Range(prev, sp[1].idx, nm))
                        ELSE acc,
                        n, default_name)

marker_ranges(messages, sp, default_name) ==
    MarkerLoop(sp, 0, <<>>, Len(messages), default_name)

\* slice_messages, the naming loop: f"{base}{suffix}".
name_ranges(rs) ==
    [k \in 1..Len(rs) |->
        Range(rs[k].a, rs[k].b,
              IF CountUpTo(rs, k) = 1 THEN rs[k].name
              ELSE rs[k].name \o <<"-">> \o StrOfInt(CountUpTo(rs, k)))]

\* slice_messages(messages, splits, default_name)
slice_messages(messages, sp, default_name) ==
    IF sp = <<>> THEN <<Range(0, Len(messages), StrWhole)>>
    ELSE name_ranges(marker_ranges(messages, sp, default_name))

\* main(), the final loop of split_convo: slice_obj for the n-th slice.
split_slice_obj(messages, rs, n) ==
    [slice    |-> rs[n].name,
     sequence |-> n,
     messages |-> PySlice(messages, rs[n].a, rs[n].b)]

\* main(), the final loop of split_convo: the manifest entry.
split_manifest_entry(rs, n) ==
    [slice                |-> rs[n].name,
     sequence             |-> n,
     approx_message_range |-> <<rs[n].a, rs[n].b>>]

----------------------------------------------------------------------------
(* Filters and selection: extract_conversation.py *)

\* The modules the script imports (lines 37-41): json, argparse, re, and the
\* names imported from datetime and typing.
Imports == {"json", "argparse", "re", "datetime", "typing"}

Lowers == <<"a", "b", "c", "d", "e", "f", "g", "h", "i", "j", "k", "l", "m",
            "n", "o", "p", "q", "r", "s", "t", "u", "v", "w", "x", "y", "z">>

Uppers == <<"A", "B", "C", "D", "E", "F", "G", "H", "I", "J", "K", "L", "M",
            "N", "O", "P", "Q", "R", "S", "T", "U", "V", "W", "X", "Y", "Z">>

LowerChar(c) ==
    IF \E i \in 1..Len(Uppers) : Uppers[i] = c
    THEN Lowers[CHOOSE i \in 1..Len(Uppers) : Uppers[i] = c]
    ELSE c

\* s.lower()
Lower(s) == [i \in 1..Len(s) |-> LowerChar(s[i])]

\* sub in s
Contains(sub, s) ==
    \E i \in 0..(Len(s) - Len(sub)) : SubSeq(s, i + 1, i + Len(sub)) = sub

\* conv_title: str(conv.get("title", ""))
conv_title(conv) == IF IsNone(conv.title) THEN <<>> ELSE conv.title[1]

\* The value of the first key that is present, whatever the value.
RECURSIVE FirstPresent(_)
FirstPresent(os) ==
    IF os = <<>> THEN None
    ELSE IF ~IsNone(os[1]) THEN os[1]
    ELSE FirstPresent(Tail(os))

\* conv_id: the value of the first of conversation_id, id, uuid, cid that is
\* present, "" without any.
conv_id(conv) ==
    IF IsNone(FirstPresent(conv.idkeys)) THEN <<>> ELSE FirstPresent(conv.idkeys)[1]

\* A datetime: an instant t, offset-aware or naive.
DateTime(t, aware) == [t |-> t, aware |-> aware]

\* The JSON values a time field may hold: a number (epoch), an ISO string
\* without offset, an ISO string with an offset or "Z", a string that is not
\* ISO, or null.
NumTime(t) == [kind |-> "num", t |-> t]

IsoTime(t) == [kind |-> "iso", t |-> t]

IsoZTime(t) == [kind |-> "isoz", t |-> t]

BadTime == [kind |-> "bad", t |-> 0]

NullTime == [kind |-> "null", t |-> 0]

\* datetime.fromtimestamp(val) for a number and
\* datetime.fromisoformat(val.replace("Z", "+00:00")) for a string; None when
\* the value is neither or the string does not parse.
ParseTime(v) ==
    IF v.kind \in {"num", "iso"} THEN Some(DateTime(v.t, FALSE))
    ELSE IF v.kind = "isoz" THEN Some(DateTime(v.t, TRUE))
    ELSE None

\* conv_start_time, the loop over create_time, created_at, start_time: the
\* first present key whose value converts.
RECURSIVE FirstParsed(_)
FirstParsed(vals) ==
    IF vals = <<>> THEN None
    ELSE IF ~IsNone(vals[1]) /\ ~IsNone(ParseTime(vals[1][1])) THEN ParseTime(vals[1][1])
    ELSE FirstParsed(Tail(vals))

\* The messages of the nodes of a mapping whose "message" is a dict.
NodeMessages(mapping) ==
    LET withMsg == SelectSeq(mapping, LAMBDA nd : ~IsNone(nd.message))
    IN  [k \in 1..Len(withMsg) |-> withMsg[k].message[1]]

\* The messages conv_start_time and iter_messages look into: the flat list,
\* else the messages of the mapping, else none.
MessagesOf(conv) ==
    IF ~IsNone(conv.messages) THEN conv.messages[1]
    ELSE IF ~IsNone(conv.mapping) THEN NodeMessages(conv.mapping[1])
    ELSE <<>>

\* conv_start_time, the loop over the messages: ts is the value of the first
\* present key of create_time, created_at, timestamp; a value that does not
\* convert is skipped, and so is one whose comparison with `earliest` raises
\* (an aware datetime against a naive one).
RECURSIVE EarliestFrom(_, _)
EarliestFrom(ms, earliest) ==
    IF ms = <<>> THEN earliest
    ELSE LET ts == FirstPresent(ms[1].tskeys)
             dt == IF IsNone(ts) THEN None ELSE ParseTime(ts[1])
         IN  IF IsNone(dt) THEN EarliestFrom(Tail(ms), earliest)
             ELSE IF IsNone(earliest) THEN EarliestFrom(Tail(ms), dt)
             ELSE IF dt[1].aware # earliest[1].aware THEN EarliestFrom(Tail(ms), earliest)
             ELSE IF dt[1].t < earliest[1].t THEN EarliestFrom(Tail(ms), dt)
             ELSE EarliestFrom(Tail(ms), earliest)

\* conv_start_time(conv): a datetime or None.
conv_start_time(conv) ==
    IF ~IsNone(FirstParsed(conv.times)) THEN FirstParsed(conv.times)
    ELSE EarliestFrom(MessagesOf(conv), None)

StrNone == <<"N", "o", "n", "e">>

\* str(p) for a part: a part that is not a string is None here.
StrOfPart(p) == IF IsNone(p) THEN StrNone ELSE p[1]

\* The parts that are strings.
StringParts(parts) ==
    LET strs == SelectSeq(parts, LAMBDA p : ~IsNone(p))
    IN  [k \in 1..Len(strs) |-> strs[k][1]]

\* json.dumps(m, ensure_ascii=False) of a message that yields no chunk: the
\* messages explored that reach it hold a role and at most an empty content.
Dumps(m) ==
    <<"{", "\"", "r", "o", "l", "e", "\"", ":", " ", "\"">> \o m.role \o <<"\"">>
    \o (IF m.content.kind = "dict"
        THEN <<",", " ", "\"", "c", "o", "n", "t", "e", "n", "t", "\"", ":", " ",
               "{", "\"", "p", "a", "r", "t", "s", "\"", ":", " ", "[", "]", "}">>
        ELSE IF m.content.kind = "list"
        THEN <<",", " ", "\"", "c", "o", "n", "t", "e", "n", "t", "\"", ":", " ", "[", "]">>
        ELSE <<>>)
    \o <<"}">>

\* The strings of a message the snippet is searched in. The content is a
\* dict holding "parts" (kind "dict"), a list (kind "list", its items in
\* parts), a string (kind "str") or anything else (kind "none").
Chunks(m) ==
    LET fromContent ==
            IF m.content.kind = "dict"
            THEN [k \in 1..Len(m.content.parts) |-> StrOfPart(m.content.parts[k])]
                 \o StringParts(m.content.parts)
            ELSE IF m.content.kind = "list" THEN StringParts(m.content.parts)
            ELSE IF m.content.kind = "str" THEN <<m.content.text>>
            ELSE <<>>
        withText == IF IsNone(m.text) THEN fromContent ELSE Append(fromContent, m.text[1])
    IN  IF withText = <<>> THEN <<Dumps(m)>> ELSE withText

\* Whether re.compile(patt) succeeds: of the patterns explored, those with an
\* unbalanced parenthesis do not.
Compiles(patt) == \A i \in 1..Len(patt) : patt[i] # "("

\* rx.search(ch) with re.IGNORECASE for a pattern of literal characters and
\* "." (any character but a newline).
RegexSearch(patt, ch) ==
    \E i \in 0..(Len(ch) - Len(patt)) :
        \A j \in 1..Len(patt) :
            \/ patt[j] = "." /\ ch[i + j] # "\n"
            \/ patt[j] # "." /\ LowerChar(patt[j]) = LowerChar(ch[i + j])

\* The search of one chunk: by the compiled pattern, or by substring when the
\* pattern does not compile.
ChunkMatches(patt, ch) ==
    IF Compiles(patt) THEN RegexSearch(patt, ch)
    ELSE Contains(Lower(patt), Lower(ch))

\* conv_matches_filters, the snippet loop: `found`.
SnippetFound(conv, patt) ==
    \E k \in 1..Len(MessagesOf(conv)) :
        \E c \in 1..Len(Chunks(MessagesOf(conv)[k])) :
            ChunkMatches(patt, Chunks(MessagesOf(conv)[k])[c])

BoolReturned(b) == [ok |-> TRUE, val |-> b, error |-> "none"]

BoolRaised(e) == [ok |-> FALSE, val |-> FALSE, error |-> e]

\* conv_matches_filters, the date filters: "pass", "fail" (return False) or
\* the TypeError raised by comparing an aware datetime with a naive one.
DateCheck(conv, after, before) ==
    LET st == conv_start_time(conv)
    IN  IF IsNone(after) /\ IsNone(before) THEN "pass"
        ELSE IF IsNone(st) THEN "fail"
        ELSE IF ~IsNone(after) /\ st[1].aware # after[1].aware THEN "TypeError"
        ELSE IF ~IsNone(after) /\ st[1].t < after[1].t THEN "fail"
        ELSE IF ~IsNone(before) /\ st[1].aware # before[1].aware THEN "TypeError"
        ELSE IF ~IsNone(before) /\ st[1].t > before[1].t THEN "fail"
        ELSE "pass"

\* conv_matches_filters(conv, title_sub, cid, snippet, after, before)
conv_matches_filters(conv, title_sub, cid, snippet, after, before) ==
    IF TruthyStr(title_sub) /\ ~Contains(Lower(title_sub[1]), Lower(conv_title(conv)))
    THEN BoolReturned(FALSE)
    ELSE IF TruthyStr(cid) /\ cid[1] # conv_id(conv) THEN BoolReturned(FALSE)
    ELSE IF DateCheck(conv, after, before) = "fail" THEN BoolReturned(FALSE)
    ELSE IF DateCheck(conv, after, before) = "TypeError"
    THEN BoolRaised("TypeError: can't compare offset-naive and offset-aware datetimes")
    ELSE IF TruthyStr(snippet) /\ ~SnippetFound(conv, snippet[1]) THEN BoolReturned(FALSE)
    ELSE BoolReturned(TRUE)

----------------------------------------------------------------------------
(* The steps of slice_by_ranges.main *)

\* convo = load_convo(in_path); msgs = convo["messages"]
LoadConvo ==
    /\ tool = "slice_by_ranges"
    /\ pc = "load"
    /\ IF HasMessagesList(raw) \/ HasMappingDict(raw)
       THEN /\ msgs' = load_convo(raw)
            /\ pc' = "ranges"
            /\ err' = err
       ELSE /\ msgs' = msgs
            /\ pc' = "failed"
            /\ err' = "Expected 'messages' (list) or 'mapping' (dict)"
    /\ UNCHANGED <<callVars, extractVars, tool, raw, args, slices_specs, clean_specs, enumerated,
                   splits, ranges, slices, slice_objs, manifest>>

\* The explicit ranges, else the split-at ranges, else the whole conversation.
BuildSpecs ==
    /\ tool = "slice_by_ranges"
    /\ pc = "ranges"
    /\ LET res == build_slices_specs(args, msgs)
       IN  IF res.ok
           THEN /\ slices_specs' = res.ranges
                /\ pc' = "clean"
                /\ err' = err
           ELSE /\ slices_specs' = slices_specs
                /\ pc' = "failed"
                /\ err' = res.error
    /\ UNCHANGED <<callVars, extractVars, tool, raw, args, msgs, clean_specs, enumerated,
                   splits, ranges, slices, slice_objs, manifest>>

\* The clamping loop.
Clean ==
    /\ tool = "slice_by_ranges"
    /\ pc = "clean"
    /\ clean_specs' = clean(slices_specs, Len(msgs), args.default_slice_name)
    /\ pc' = "names"
    /\ UNCHANGED <<callVars, extractVars, tool, raw, args, msgs, slices_specs, enumerated,
                   splits, ranges, slices, slice_objs, manifest, err>>

\* The name disambiguation loop.
Enumerate ==
    /\ tool = "slice_by_ranges"
    /\ pc = "names"
    /\ enumerated' = enumerate_names(clean_specs)
    /\ pc' = "assemble"
    /\ UNCHANGED <<callVars, extractVars, tool, raw, args, msgs, slices_specs, clean_specs,
                   splits, ranges, slices, slice_objs, manifest, err>>

\* The final loop: one slice document and one manifest entry per range.
Assemble ==
    /\ tool = "slice_by_ranges"
    /\ pc = "assemble"
    /\ slice_objs' = [n \in 1..Len(enumerated) |-> slice_obj(msgs, enumerated, n)]
    /\ manifest' = [n \in 1..Len(enumerated) |-> manifest_entry(enumerated, n)]
    /\ pc' = "done"
    /\ UNCHANGED <<callVars, extractVars, tool, raw, args, msgs, slices_specs, clean_specs, enumerated,
                   splits, ranges, slices, err>>

\* A direct call of build_ranges_from_split_at(split_tokens, messages,
\* default_name, slice_names); slices_specs receives the list returned.
CallBuildRanges ==
    /\ tool = "build_ranges_from_split_at"
    /\ pc = "call"
    /\ LET res == build_ranges_from_split_at(args.split_at, msgs,
                                              args.default_slice_name, args.slice_names)
       IN  IF res.ok
           THEN /\ slices_specs' = res.ranges
                /\ pc' = "returned"
                /\ err' = err
           ELSE /\ slices_specs' = slices_specs
                /\ pc' = "raised"
                /\ err' = res.error
    /\ UNCHANGED <<callVars, extractVars, tool, raw, args, msgs, clean_specs, enumerated,
                   splits, ranges, slices, slice_objs, manifest>>

\* A direct call of index_for_token(messages, token).
CallIndexForToken ==
    /\ tool = "index_for_token"
    /\ pc = "call"
    /\ result' = index_for_token(msgs, call_args.token)
    /\ pc' = IF result'.ok THEN "returned" ELSE "raised"
    /\ err' = IF result'.ok THEN err ELSE result'.error
    /\ UNCHANGED <<extractVars, tool, raw, args, msgs, slices_specs, clean_specs,
                   enumerated, splits, ranges, slices, slice_objs, manifest, call_args>>

----------------------------------------------------------------------------
(* The steps of split_convo.main *)

\* convo = normalize_convo(raw)
NormalizeConvo ==
    /\ tool = "split_convo"
    /\ pc = "load"
    /\ IF HasMessagesList(raw) \/ HasMappingDict(raw)
       THEN /\ msgs' = normalize_convo(raw)
            /\ pc' = "find_splits"
            /\ err' = err
       ELSE /\ msgs' = msgs
            /\ pc' = "failed"
            /\ err' = "Could not locate messages array"
    /\ UNCHANGED <<callVars, extractVars, tool, raw, args, slices_specs, clean_specs, enumerated,
                   splits, ranges, slices, slice_objs, manifest>>

\* splits = find_splits(convo["messages"])
FindSplits ==
    /\ tool = "split_convo"
    /\ pc = "find_splits"
    /\ splits' = find_splits(msgs)
    /\ pc' = "slice"
    /\ UNCHANGED <<callVars, extractVars, tool, raw, args, msgs, slices_specs, clean_specs, enumerated,
                   ranges, slices, slice_objs, manifest, err>>

\* slices = slice_messages(convo["messages"], splits, default_name); the local
\* list `ranges` of the call is recorded too (it stays empty when the call
\* returns early).
SliceMessages ==
    /\ tool = "split_convo"
    /\ pc = "slice"
    /\ ranges' = IF splits = <<>> THEN <<>>
                 ELSE marker_ranges(msgs, splits, args.default_slice_name)
    /\ slices' = slice_messages(msgs, splits, args.default_slice_name)
    /\ pc' = "assemble"
    /\ UNCHANGED <<callVars, extractVars, tool, raw, args, msgs, slices_specs, clean_specs, enumerated,
                   splits, slice_objs, manifest, err>>

\* The final loop: one slice document and one manifest entry per slice.
AssembleSplit ==
    /\ tool = "split_convo"
    /\ pc = "assemble"
    /\ slice_objs' = [n \in 1..Len(slices) |-> split_slice_obj(msgs, slices, n)]
    /\ manifest' = [n \in 1..Len(slices) |-> split_manifest_entry(slices, n)]
    /\ pc' = "done"
    /\ UNCHANGED <<callVars, extractVars, tool, raw, args, msgs, slices_specs, clean_specs, enumerated,
                   splits, ranges, slices, err>>

----------------------------------------------------------------------------
(* The steps of extract_conversation.main *)

\* Line 63: the first element of a list under another key has a title, a
\* mapping or messages.
HasConversationKey(c) == ~IsNone(c.title) \/ ~IsNone(c.mapping) \/ ~IsNone(c.messages)

\* Line 81: a JSONL line is kept if it has any of conversation_id, title,
\* mapping, messages.
LikelyConversation(c) == ~IsNone(c.idkeys[1]) \/ HasConversationKey(c)

ExportReturned(cs) == [ok |-> TRUE, convs |-> cs, error |-> "none"]

ExportRaised(e) == [ok |-> FALSE, convs |-> <<>>, error |-> e]

\* load_export(path). The file holds a JSON list (shape "list"), an object
\* with a "conversations" list (shape "wrapped"), an object with the list
\* under another key (shape "other_key"), one conversation per line (shape
\* "jsonl"), or something else; a document that yields no conversation falls
\* through to the line by line reading, which finds none in it.
load_export(x) ==
    LET whole == IF x.shape \in {"list", "wrapped"} THEN x.convs
                 ELSE IF x.shape = "other_key" /\ x.convs # <<>>
                         /\ HasConversationKey(x.convs[1]) THEN x.convs
                 ELSE <<>>
        lines == IF x.shape = "jsonl" THEN SelectSeq(x.convs, LikelyConversation)
                 ELSE <<>>
    IN  IF whole # <<>> THEN ExportReturned(whole)
        ELSE IF lines # <<>> THEN ExportReturned(lines)
        ELSE ExportRaised("ValueError: Could not detect a supported export format")

\* datetime.fromisoformat(args.after): a date (naive), a date and time with
\* an offset (aware), or a string that raises ValueError.
DateArgParses(a) == a.kind \in {"date", "aware"}

ParseDateArg(o) ==
    IF IsNone(o) THEN None ELSE Some(DateTime(o[1].t, o[1].kind = "aware"))

\* conv_matches_filters applied with the command line's filters.
MatchOf(conv, a) ==
    conv_matches_filters(conv, a.by_title, a.by_id, a.by_snippet,
                         ParseDateArg(a.after), ParseDateArg(a.before))

\* An entry of `matches`: (i, conv).
Match(i, conv) == [i |-> i, conv |-> conv]

\* The loop that builds `matches`, from the 1-based position k on.
RECURSIVE MatchesFrom(_, _, _)
MatchesFrom(convs, a, k) ==
    IF k > Len(convs) THEN <<>>
    ELSE IF MatchOf(convs[k], a).val
         THEN <<Match(k - 1, convs[k])>> \o MatchesFrom(convs, a, k + 1)
         ELSE MatchesFrom(convs, a, k + 1)

\* matches[:20]
ListCap == 20

\* One line of the listing written for an index out of range.
ListingLine(idx, mt) ==
    [idx          |-> idx,
     source_index |-> mt.i,
     id           |-> conv_id(mt.conv),
     title        |-> conv_title(mt.conv),
     start        |-> conv_start_time(mt.conv)]

Listing(ms) == [k \in 1..Min(Len(ms), ListCap) |-> ListingLine(k - 1, ms[k])]

\* The uncaught exception raised by a use of `sys`, which is not imported.
NameErrorSys == "NameError: name 'sys' is not defined"

\* Lines 257-261: the date filters are parsed and the export is loaded.
LoadExport ==
    /\ tool = "extract_conversation"
    /\ pc = "load"
    /\ IF \/ ~IsNone(xargs.after) /\ ~DateArgParses(xargs.after[1])
          \/ ~IsNone(xargs.before) /\ ~DateArgParses(xargs.before[1])
       THEN /\ conversations' = conversations
            /\ pc' = "failed"
            /\ err' = "ValueError: Invalid isoformat string"
            /\ status' = Some(1)
       ELSE IF ~load_export(export).ok
       THEN /\ conversations' = conversations
            /\ pc' = "failed"
            /\ err' = load_export(export).error
            /\ status' = Some(1)
       ELSE /\ conversations' = load_export(export).convs
            /\ pc' = "match"
            /\ err' = err
            /\ status' = status
    /\ UNCHANGED <<callVars, tool, raw, args, msgs, slices_specs, clean_specs,
                   enumerated, splits, ranges, slices, slice_objs, manifest,
                   export, xargs, matches, listing, written>>

\* Lines 262-265: the conversations are filtered; an exception raised by
\* conv_matches_filters ends the run.
MatchConversations ==
    /\ tool = "extract_conversation"
    /\ pc = "match"
    /\ IF \E k \in 1..Len(conversations) : ~MatchOf(conversations[k], xargs).ok
       THEN /\ matches' = matches
            /\ pc' = "failed"
            /\ err' = "TypeError: can't compare offset-naive and offset-aware datetimes"
            /\ status' = Some(1)
       ELSE /\ matches' = MatchesFrom(conversations, xargs, 1)
            /\ pc' = "select"
            /\ err' = err
            /\ status' = status
    /\ UNCHANGED <<callVars, tool, raw, args, msgs, slices_specs, clean_specs,
                   enumerated, splits, ranges, slices, slice_objs, manifest,
                   export, xargs, conversations, listing, written>>

\* Lines 267-293: no match, an index out of range, or the chosen conversation
\* is written. Each path writes to sys.stderr; with `sys` not imported that
\* raises NameError, and the interpreter exits with status 1.
Select ==
    /\ tool = "extract_conversation"
    /\ pc = "select"
    /\ pc' = "exited"
    /\ IF matches = <<>>
       THEN /\ written' = written
            /\ listing' = listing
            /\ IF "sys" \in Imports
               THEN status' = Some(2) /\ err' = err
               ELSE status' = Some(1) /\ err' = NameErrorSys
       ELSE IF xargs.index < 0 \/ xargs.index >= Len(matches)
       THEN /\ written' = written
            /\ IF "sys" \in Imports
               THEN listing' = Listing(matches) /\ status' = Some(3) /\ err' = err
               ELSE listing' = listing /\ status' = Some(1) /\ err' = NameErrorSys
       ELSE /\ written' = Some(matches[xargs.index + 1].conv)
            /\ listing' = listing
            /\ IF "sys" \in Imports
               THEN status' = Some(0) /\ err' = err
               ELSE status' = Some(1) /\ err' = NameErrorSys
    /\ UNCHANGED <<callVars, tool, raw, args, msgs, slices_specs, clean_specs,
                   enumerated, splits, ranges, slices, slice_objs, manifest,
                   export, xargs, conversations, matches>>

\* A direct call of conv_matches_filters(conv, title_sub, cid, snippet, after,
\* before).
CallConvMatchesFilters ==
    /\ tool = "conv_matches_filters"
    /\ pc = "call"
    /\ result' = conv_matches_filters(call_args.conv, call_args.title_sub, call_args.cid,
                                      call_args.snippet, call_args.after, call_args.before)
    /\ pc' = IF result'.ok THEN "returned" ELSE "raised"
    /\ err' = IF result'.ok THEN err ELSE result'.error
    /\ UNCHANGED <<extractVars, tool, raw, args, msgs, slices_specs, clean_specs,
                   enumerated, splits, ranges, slices, slice_objs, manifest, call_args>>

----------------------------------------------------------------------------
(* The inputs explored *)

SeqsUpTo(S, n) == UNION {[1..k -> S] : k \in 0..n}

StrChat == <<"c", "h", "a", "t">>

StrPart == <<"p", "a", "r", "t">>

StrAct2 == <<"A", "c", "t", "2">>

StrX == <<"x">>

\* The configured default slice name: the built-in default or a configured one.
DefaultNames == {StrSlice, StrPart}

\* How the messages of a flat document carry their identifiers.
IdLayouts == {"none", "unique", "repeated"}

IdKeys(k, layout) ==
    IF layout = "unique" THEN <<Some(Letter(k)), None, None>>
    ELSE IF layout = "repeated" THEN <<None, Some(Letter(((k - 1) % 2) + 1)), Some(<<>>)>>
    ELSE <<None, None, None>>

\* The k-th entry of a flat "messages" list.
FlatMsg(k, layout, content) ==
    [idkeys |-> IdKeys(k, layout), role |-> None, content |-> content,
     create_time |-> None]

FlatDoc(n, layout) ==
    [messages |-> Some([k \in 1..n |-> FlatMsg(k, layout, <<Text(Letter(k))>>)]),
     mapping  |-> None]

\* A document with neither message shape.
NoShapeDoc == [messages |-> None, mapping |-> None]

FlatDocs == {FlatDoc(n, layout) : n \in 0..MaxMsgs, layout \in IdLayouts}

FlatDocsWithIds == {FlatDoc(n, "unique") : n \in 0..MaxMsgs}

\* The timestamps a mapping node's message may carry.
TsValues == {None, Some(0), Some(10), Some(20), Some(30)}

\* The k-th node of a mapping: no message, or a message with timestamp ts.
NodeAt(k, choice) ==
    [node_id |-> <<"n">> \o StrOfInt(k),
     message |-> IF ~choice.present THEN None
                 ELSE Some([author_role |-> None,
                            content |-> [kind |-> "dict",
                                         parts |-> <<Some(<<Text(Letter(k))>>)>>,
                                         text |-> <<>>],
                            create_time |-> choice.ts,
                            id |-> IF k % 2 = 0 THEN Some(Letter(k)) ELSE None])]

NodeChoices ==
    {[present |-> FALSE, ts |-> None]} \cup {[present |-> TRUE, ts |-> t] : t \in TsValues}

Present(t) == [present |-> TRUE, ts |-> Some(t)]

MappingDoc(choices) ==
    [messages |-> None,
     mapping  |-> Some([k \in 1..Len(choices) |-> NodeAt(k, choices[k])])]

\* A few documents of every shape.
AnyShapeDocs ==
    {FlatDoc(MaxMsgs, "unique"), NoShapeDoc}
    \cup {MappingDoc(c) : c \in [1..MaxNodes -> {Present(10), Present(20)}]}

\* A flat document whose entries carry timestamps in descending order.
TimedFlatDoc(n) ==
    [messages |-> Some([k \in 1..n |->
                          [FlatMsg(k, "unique", <<Text(Letter(k))>>)
                              EXCEPT !.create_time = Some(10 * (n - k + 1))]]),
     mapping  |-> None]

\* A document with both shapes: a flat list of two entries and a mapping of
\* three nodes.
BothShapesDoc ==
    [messages |-> TimedFlatDoc(2).messages,
     mapping  |-> MappingDoc(<<Present(20), Present(10), Present(30)>>).mapping]

\* --range arguments with a start token, an end token and a name.
Triple(start, end, name) == [start |-> start, end |-> end, name |-> name]

RangeTriples ==
    { Triple(StrOfInt(1), StrOfInt(3), StrChat),
      Triple(StrOfInt(3), StrOfInt(1), StrChat),
      Triple(StrOfInt(0), StrOfInt(0), StrChat),
      Triple(StrOfInt(2), StrOfInt(9), StrX),
      Triple(StrOfInt(-3), StrOfInt(-1), StrX),
      Triple(IdPrefix \o Letter(4), IdPrefix \o Letter(2), StrChat),
      Triple(StrOfInt(2), StrOfInt(2), <<>>) }

\* The argument "start:end:name".
RangeArg(t) == JoinWith(<<t.start, t.end, t.name>>, <<":">>)

\* "4:id:a" has no name part; "3" has no end token.
RangeArgs ==
    {RangeArg(t) : t \in RangeTriples}
    \cup { JoinWith(<<StrOfInt(4), IdPrefix \o Letter(1)>>, <<":">>), StrOfInt(3) }

\* The --range lists explored: one to MaxRanges arguments.
RangeArgLists == UNION {[1..k -> RangeArgs] : k \in 1..MaxRanges}

\* --split-at tokens.
CutTokens ==
    { StrOfInt(0), StrOfInt(1), StrOfInt(2), StrOfInt(-1), IdPrefix \o Letter(3), StrX }

\* The --split-at lists explored: any order, repetitions allowed.
CutTokenLists == SeqsUpTo(CutTokens, MaxCuts)

\* A boundary token with what it denotes: the integer n (kind "int"), a
\* reference to the original id x (kind "id"), or neither (kind "bad").
TokenCase(tok, kind, n, x) == [tok |-> tok, kind |-> kind, n |-> n, x |-> x]

TokenCases ==
    { TokenCase(IntTok(3), "int", 3, <<>>),
      TokenCase(IntTok(-1), "int", -1, <<>>),
      TokenCase(StrTok(<<"2">>), "int", 2, <<>>),
      TokenCase(StrTok(<<"-", "1">>), "int", -1, <<>>),
      TokenCase(StrTok(<<"1", "2">>), "int", 12, <<>>),
      TokenCase(StrTok(<<"i", "d", ":", "a">>), "id", 0, <<"a">>),
      TokenCase(StrTok(<<"i", "d", ":", "b">>), "id", 0, <<"b">>),
      TokenCase(StrTok(<<"i", "d", ":", "e">>), "id", 0, <<"e">>),
      TokenCase(StrTok(<<"i", "d", ":", "n", "1">>), "id", 0, <<"n", "1">>),
      TokenCase(StrTok(<<"i", "d", ":", "z">>), "id", 0, <<"z">>),
      TokenCase(StrTok(<<"i", "d", ":">>), "id", 0, <<>>),
      TokenCase(StrTok(<<"i", "d">>), "bad", 0, <<>>),
      TokenCase(StrTok(<<"x">>), "bad", 0, <<>>),
      TokenCase(StrTok(<<>>), "bad", 0, <<>>) }

\* The documents whose normalized messages the token is resolved against.
TokenDocs == FlatDocs \cup {MappingDoc(<<Present(20), Present(10)>>)}

\* --slice-names lists.
PosName(k) == <<"s">> \o StrOfInt(k)

SliceNameLists ==
    { <<>>, <<StrChat, StrChat>>, [k \in 1..(MaxCuts + 2) |-> PosName(k)] }

\* What a message of the marker flow holds: plain text, an unnamed marker, a
\* named marker (the captured group keeps its blanks), a marker whose name is
\* blank, or two markers.
ContentKinds == {"text", "marker", "named", "blank", "two"}

\* A name that ends like a disambiguated one.
StrSlice2 == StrSlice \o <<"-", "2">>

StrChat2 == StrChat \o <<"-", "2">>

\* The content of kind "suffixed" is a marker named "slice-2".
ContentOf(kind, k) ==
    IF kind = "suffixed" THEN <<Marker(Some(StrSlice2))>>
    ELSE IF kind = "marker" THEN <<Text(Letter(k)), Marker(None)>>
    ELSE IF kind = "named" THEN <<Marker(Some(<<" ">> \o StrAct2 \o <<" ">>)), Text(Letter(k))>>
    ELSE IF kind = "blank" THEN <<Marker(Some(<<" ">>))>>
    ELSE IF kind = "two" THEN <<Marker(Some(StrChat)), Text(Letter(k)), Marker(None)>>
    ELSE <<Text(Letter(k))>>

MarkerDoc(kinds) ==
    [messages |-> Some([k \in 1..Len(kinds) |->
                          FlatMsg(k, "none", ContentOf(kinds[k], k))]),
     mapping  |-> None]

\* Five messages: a marker named "slice-2" at index 1 and an unnamed marker at
\* index 3.
SuffixedMarkerDoc == MarkerDoc(<<"text", "suffixed", "text", "marker", "text">>)

MarkerDocs == {MarkerDoc(kinds) : kinds \in SeqsUpTo(ContentKinds, MaxMsgs)}

MappingDocs == {MappingDoc(c) : c \in SeqsUpTo(NodeChoices, MaxNodes)}

\* Documents of every shape, for the dispatch on the shape.
ShapeDocs ==
    {TimedFlatDoc(n) : n \in 0..MaxMsgs}
    \cup {BothShapesDoc, NoShapeDoc, MappingDoc(<<Present(20), Present(10)>>)}
    \cup {SuffixedMarkerDoc}

\* The base names of the ranges of a list longer than MaxRanges.
NameChoices == {StrChat, StrChat2, StrX}

\* --range lists of MaxRanges + 1 one-message ranges k:k:name, the names drawn
\* from NameChoices.
NamedRangeLists ==
    {[k \in 1..(MaxRanges + 1) |-> RangeArg(Triple(StrOfInt(k - 1), StrOfInt(k - 1), ns[k]))] :
        ns \in [1..(MaxRanges + 1) -> NameChoices]}

\* A message of an export: role, content, "text" entry, and the time keys
\* create_time, created_at, timestamp.
XMsg(role, content, text, tskeys) ==
    [role |-> role, content |-> content, text |-> text, tskeys |-> tskeys]

StrContent(s) == [kind |-> "str", parts |-> <<>>, text |-> s]

PartsContent(parts) == [kind |-> "dict", parts |-> parts, text |-> <<>>]

ListContent(items) == [kind |-> "list", parts |-> items, text |-> <<>>]

NoContent == [kind |-> "none", parts |-> <<>>, text |-> <<>>]

StrUser == <<"u", "s", "e", "r">>

NoTimes == <<None, None, None>>

\* A conversation of an export: title, the id keys conversation_id, id, uuid,
\* cid, the time keys create_time, created_at, start_time, and the messages
\* as a flat list or as a mapping.
XConv(title, idkeys, times, messages, mapping) ==
    [title |-> title, idkeys |-> idkeys, times |-> times,
     messages |-> messages, mapping |-> mapping]

XNode(message) == [message |-> message]

\* "Alpha", id 1, created at 20 (epoch), one message "abc".
ConvAlpha ==
    XConv(Some(<<"A", "l", "p", "h", "a">>), <<None, Some(<<"1">>), None, None>>,
          <<Some(NumTime(20)), None, None>>,
          Some(<<XMsg(StrUser, StrContent(<<"a", "b", "c">>), None, NoTimes)>>), None)

\* "beta", conversation_id 2, create_time null, created_at unparseable,
\* start_time an ISO string at 10; a mapping with a node without message and
\* a node whose parts are "hello" and a non-string.
ConvBeta ==
    XConv(Some(<<"b", "e", "t", "a">>), <<Some(<<"2">>), Some(<<"1">>), None, None>>,
          <<Some(NullTime), Some(BadTime), Some(IsoTime(10))>>,
          None,
          Some(<<XNode(None),
                 XNode(Some(XMsg(StrUser,
                                 PartsContent(<<Some(<<"h", "e", "l", "l", "o">>), None>>),
                                 None, NoTimes)))>>))

\* "alphabet", uuid 1, created at 30 given as an ISO string with offset; a
\* message whose text is under "text".
ConvGamma ==
    XConv(Some(<<"a", "l", "p", "h", "a", "b", "e", "t">>), <<None, None, Some(<<"1">>), None>>,
          <<None, Some(IsoZTime(30)), None>>,
          Some(<<XMsg(StrUser, ListContent(<<>>), Some(<<"A", "B">>), NoTimes)>>), None)

\* No title, no id, no time anywhere; one message without content.
ConvBare ==
    XConv(None, <<None, None, None, None>>, NoTimes,
          Some(<<XMsg(StrUser, NoContent, None, NoTimes)>>), None)

\* No title and no explicit time; the messages carry the times: a null
\* create_time hiding a timestamp, an aware one at 5, then 40 and 15.
ConvTimed ==
    XConv(None, <<None, None, None, Some(<<"1">>)>>, NoTimes,
          Some(<<XMsg(StrUser, StrContent(<<"a", "b">>), None,
                      <<Some(NullTime), None, Some(NumTime(1))>>),
                 XMsg(StrUser, StrContent(<<"x", "\n", "c">>), None,
                      <<None, Some(NumTime(40)), None>>),
                 XMsg(StrUser, StrContent(<<"d">>), None,
                      <<Some(IsoZTime(5)), None, None>>),
                 XMsg(StrUser, NoContent, Some(<<"b", "c">>),
                      <<Some(NumTime(15)), None, None>>)>>),
          None)

Convs == {ConvAlpha, ConvBeta, ConvGamma, ConvBare, ConvTimed}

\* The exports explored: lists of up to MaxConvs conversations, the other
\* file shapes, and a list of more conversations than the listing shows.
Exports ==
    {[shape |-> "list", convs |-> cs] : cs \in SeqsUpTo(Convs, MaxConvs)}
    \cup {[shape |-> sh, convs |-> cs] :
             sh \in {"wrapped", "other_key", "jsonl", "unsupported"},
             cs \in {<<>>, <<ConvBare, ConvAlpha>>, <<ConvAlpha, ConvBare>>}}
    \cup {[shape |-> "list", convs |-> [k \in 1..(ListCap + 1) |-> ConvAlpha]]}

\* --by-title, --by-id, --by-snippet values.
TitleFilters == {None, Some(<<"A", "L", "P", "H", "A">>), Some(<<"z">>)}

IdFilters == {None, Some(<<"1">>)}

SnippetFilters == {None, Some(<<"B", ".">>), Some(<<"(", "b">>), Some(<<"u", "s", "e", "r">>)}

\* --after and --before values: dates, a date and time with an offset, and a
\* string that is no date.
DateArg(kind, t) == [kind |-> kind, t |-> t]

AfterArgs == {None, Some(DateArg("date", 15)), Some(DateArg("aware", 15)), Some(DateArg("bad", 0))}

BeforeArgs == {None, Some(DateArg("date", 25))}

\* --index values: negative, the default, the second match, beyond the cap.
IndexArgs == {-1, 0, 1, ListCap + 5}

XArgs(t, i, s, a, b, n) ==
    [by_title |-> t, by_id |-> i, by_snippet |-> s, after |-> a, before |-> b, index |-> n]

\* The command lines explored by the runs of main: every filter alone, and
\* some together.
XArgSets ==
    {XArgs(t, None, None, None, None, n) : t \in TitleFilters, n \in IndexArgs}
    \cup {XArgs(None, i, s, None, None, 0) : i \in IdFilters, s \in SnippetFilters}
    \cup {XArgs(None, None, None, a, b, n) : a \in AfterArgs, b \in BeforeArgs, n \in {0, 1}}
    \cup {XArgs(Some(<<"A", "L", "P", "H", "A">>), Some(<<"1">>), None, a, None, 0) :
             a \in AfterArgs}

\* The datetimes passed as `after` and `before` to conv_matches_filters: those
\* main builds from dates (naive).
AfterTimes == {None, Some(DateTime(15, FALSE)), Some(DateTime(35, FALSE))}

BeforeTimes == {None, Some(DateTime(25, FALSE))}

FilterCall(conv, t, i, s, a, b) ==
    [conv |-> conv, title_sub |-> t, cid |-> i, snippet |-> s, after |-> a, before |-> b]

FilterCalls ==
    {FilterCall(c, t, i, s, a, b) :
        c \in Convs, t \in TitleFilters, i \in IdFilters, s \in SnippetFilters,
        a \in AfterTimes, b \in BeforeTimes}

NoArgs(default_name) ==
    [range |-> <<>>, split_at |-> <<>>, slice_names |-> <<>>,
     default_slice_name |-> default_name]

----------------------------------------------------------------------------
(* Initial states and specifications *)

\* No function is called on its own.
NotCalled == [ok |-> FALSE, val |-> 0, error |-> "not called"]

NoCall == call_args = <<>> /\ result = NotCalled

\* extract_conversation does not run.
NoExtract ==
    /\ export = [shape |-> "unsupported", convs |-> <<>>]
    /\ xargs = XArgs(None, None, None, None, None, 0)
    /\ conversations = <<>>
    /\ matches = <<>>
    /\ listing = <<>>
    /\ written = None
    /\ status = None

\* Nothing has been computed yet.
Fresh ==
    /\ pc = "load"
    /\ NoCall
    /\ msgs = <<>>
    /\ slices_specs = <<>>
    /\ clean_specs = <<>>
    /\ enumerated = <<>>
    /\ splits = <<>>
    /\ ranges = <<>>
    /\ slices = <<>>
    /\ slice_objs = <<>>
    /\ manifest = <<>>
    /\ err = "none"

\* slice_by_ranges run with --range arguments only.
InitExplicit ==
    /\ tool = "slice_by_ranges"
    /\ raw \in FlatDocs
    /\ \E rs \in RangeArgLists, d \in DefaultNames :
          args = [NoArgs(d) EXCEPT !.range = rs]
    /\ Fresh
    /\ NoExtract

\* slice_by_ranges run with --split-at (and --slice-names) only, or with
\* neither.
InitSplitAt ==
    /\ tool = "slice_by_ranges"
    /\ raw \in FlatDocsWithIds
    /\ \E ts \in CutTokenLists, ns \in SliceNameLists, d \in DefaultNames :
          args = [NoArgs(d) EXCEPT !.split_at = ts, !.slice_names = ns]
    /\ Fresh
    /\ NoExtract

\* slice_by_ranges run with both --range and --split-at, on any document shape.
InitBoth ==
    /\ tool = "slice_by_ranges"
    /\ raw \in AnyShapeDocs
    /\ \E r \in RangeArgs, t \in CutTokens, d \in DefaultNames :
          args = [NoArgs(d) EXCEPT !.range = <<r>>, !.split_at = <<t>>]
    /\ Fresh
    /\ NoExtract

\* slice_by_ranges run with one more --range argument than MaxRanges, each
\* range holding one message.
InitNamed ==
    /\ tool = "slice_by_ranges"
    /\ raw \in {FlatDoc(n, "none") : n \in (MaxRanges + 1)..MaxMsgs}
    /\ \E rs \in NamedRangeLists : args = [NoArgs(StrSlice) EXCEPT !.range = rs]
    /\ Fresh
    /\ NoExtract

\* slice_by_ranges run with one to MaxRanges --range arguments together with
\* one --split-at token and --slice-names.
InitMixed ==
    /\ tool = "slice_by_ranges"
    /\ raw \in {FlatDoc(n, "unique") : n \in (MaxMsgs - 1)..MaxMsgs}
    /\ \E rs \in RangeArgLists, t \in CutTokens, ns \in SliceNameLists :
          args = [NoArgs(StrSlice) EXCEPT !.range = rs, !.split_at = <<t>>,
                                          !.slice_names = ns]
    /\ Fresh
    /\ NoExtract

InitSlice == InitExplicit \/ InitSplitAt \/ InitBoth \/ InitNamed \/ InitMixed

NextSlice == LoadConvo \/ BuildSpecs \/ Clean \/ Enumerate \/ Assemble

SpecSlice == InitSlice /\ [][NextSlice]_vars

\* build_ranges_from_split_at called on its own, on normalized messages.
InitSplitAtCall ==
    /\ tool = "build_ranges_from_split_at"
    /\ raw \in FlatDocsWithIds
    /\ \E ts \in CutTokenLists, ns \in SliceNameLists, d \in DefaultNames :
          args = [NoArgs(d) EXCEPT !.split_at = ts, !.slice_names = ns]
    /\ pc = "call"
    /\ NoCall
    /\ NoExtract
    /\ msgs = load_convo(raw)
    /\ slices_specs = <<>>
    /\ clean_specs = <<>>
    /\ enumerated = <<>>
    /\ splits = <<>>
    /\ ranges = <<>>
    /\ slices = <<>>
    /\ slice_objs = <<>>
    /\ manifest = <<>>
    /\ err = "none"

SpecSplitAt == InitSplitAtCall /\ [][CallBuildRanges]_vars

\* index_for_token called on its own, on normalized messages.
InitTokenCall ==
    /\ tool = "index_for_token"
    /\ raw \in TokenDocs
    /\ \E d \in DefaultNames : args = NoArgs(d)
    /\ \E c \in TokenCases : call_args = [token |-> c.tok]
    /\ result = NotCalled
    /\ NoExtract
    /\ pc = "call"
    /\ msgs = load_convo(raw)
    /\ slices_specs = <<>>
    /\ clean_specs = <<>>
    /\ enumerated = <<>>
    /\ splits = <<>>
    /\ ranges = <<>>
    /\ slices = <<>>
    /\ slice_objs = <<>>
    /\ manifest = <<>>
    /\ err = "none"

SpecToken == InitTokenCall /\ [][CallIndexForToken]_vars

\* split_convo run on a flat document whose messages may hold markers.
InitSplit ==
    /\ tool = "split_convo"
    /\ raw \in MarkerDocs \cup {NoShapeDoc}
    /\ \E d \in DefaultNames : args = NoArgs(d)
    /\ Fresh
    /\ NoExtract

NextSplit == NormalizeConvo \/ FindSplits \/ SliceMessages \/ AssembleSplit

SpecSplit == InitSplit /\ [][NextSplit]_vars

\* Either tool run on a mapping tree document.
InitNorm ==
    /\ tool \in {"slice_by_ranges", "split_convo"}
    /\ raw \in MappingDocs
    /\ args = NoArgs(StrSlice)
    /\ Fresh
    /\ NoExtract

NextNorm == LoadConvo \/ NormalizeConvo

SpecNorm == InitNorm /\ [][NextNorm]_vars

\* conv_matches_filters called on its own.
InitFilterCall ==
    /\ tool = "conv_matches_filters"
    /\ call_args \in FilterCalls
    /\ result = NotCalled
    /\ NoExtract
    /\ raw = NoShapeDoc
    /\ args = NoArgs(StrSlice)
    /\ pc = "call"
    /\ msgs = <<>>
    /\ slices_specs = <<>>
    /\ clean_specs = <<>>
    /\ enumerated = <<>>
    /\ splits = <<>>
    /\ ranges = <<>>
    /\ slices = <<>>
    /\ slice_objs = <<>>
    /\ manifest = <<>>
    /\ err = "none"

SpecFilter == InitFilterCall /\ [][CallConvMatchesFilters]_vars

\* extract_conversation run on an export.
InitExtract ==
    /\ tool = "extract_conversation"
    /\ export \in Exports
    /\ xargs \in XArgSets
    /\ conversations = <<>>
    /\ matches = <<>>
    /\ listing = <<>>
    /\ written = None
    /\ status = None
    /\ raw = NoShapeDoc
    /\ args = NoArgs(StrSlice)
    /\ Fresh

NextExtract == LoadExport \/ MatchConversations \/ Select

SpecExtract == InitExtract /\ [][NextExtract]_vars

\* Either tool run, without range or split arguments, on a document of any
\* shape.
InitShapes ==
    /\ tool \in {"slice_by_ranges", "split_convo"}
    /\ raw \in ShapeDocs
    /\ \E d \in DefaultNames : args = NoArgs(d)
    /\ Fresh
    /\ NoExtract

Init == InitSlice \/ InitSplit \/ InitNorm \/ InitShapes \/ InitExtract

Next == NextSlice \/ NextSplit \/ NextExtract

Spec == Init /\ [][Next]_vars

----------------------------------------------------------------------------
(* Properties *)

\* slice_by_ranges has finished the named step without an exception.
SliceRunPast(steps) == tool = "slice_by_ranges" /\ pc \in steps

\* The canonical indices of the messages of a slice document.
IndicesOf(obj) == [k \in 1..Len(obj.messages) |-> obj.messages[k].index]

\* A flat conversation with 5 messages sliced with the single range argument
\* "1:3:chat".
C1_Case ==
    /\ SliceRunPast({"done"})
    /\ HasMessagesList(raw)
    /\ Len(raw.messages[1]) = 5
    /\ args.range = <<RangeArg(Triple(StrOfInt(1), StrOfInt(3), StrChat))>>

\* C1 as stated: for a flat conversation with 5 messages the range token
\* 1:3:chat produces one slice named chat that holds exactly the messages at
\* canonical indices 1 and 2, with range_indices = [1, 2].
C1_AsStated ==
    C1_Case =>
        /\ Len(slice_objs) = 1
        /\ slice_objs[1].slice = StrChat
        /\ IndicesOf(slice_objs[1]) = <<1, 2>>
        /\ slice_objs[1].range_indices = <<1, 2>>

\* C1 amended: for a flat conversation with 5 messages the range token
\* 1:3:chat produces one slice named chat that holds exactly the messages at
\* canonical indices 1, 2 and 3 (the end index is inclusive), with
\* range_indices = [1, 3].
C1_InclusiveExample ==
    C1_Case =>
        /\ Len(slice_objs) = 1
        /\ slice_objs[1].slice = StrChat
        /\ IndicesOf(slice_objs[1]) = <<1, 2, 3>>
        /\ slice_objs[1].range_indices = <<1, 3>>

C1_Witness == C1_Case /\ Len(slice_objs) = 1 /\ args.split_at = <<>>

\* The index a token string resolves to against the normalized messages.
Resolved(tok) == index_for_token(msgs, StrTok(tok))

\* C2: for every explicit range triple whose start and end tokens resolve to
\* indices a and b, parse_range returns the half-open range
\* (min(a,b), max(a,b)+1, name): the pair is inclusive, and an inverted pair is
\* swapped to (b, a+1), neither rejected nor returned as (a, b).
C2_InclusiveSwapped ==
    (SliceRunPast({"clean", "names", "assemble", "done"}) /\ args.range # <<>>) =>
        /\ Len(slices_specs) = Len(args.range)
        /\ \A k \in 1..Len(args.range) : \A t \in RangeTriples :
              (args.range[k] = RangeArg(t) /\ Resolved(t.start).ok /\ Resolved(t.end).ok) =>
                  LET a == Resolved(t.start).val
                      b == Resolved(t.end).val
                  IN  slices_specs[k] = Range(Min(a, b), Max(a, b) + 1, t.name)

\* An inverted pair has been parsed.
C2_Witness ==
    /\ SliceRunPast({"clean"})
    /\ \E k \in 1..Len(args.range) : \E t \in RangeTriples :
          /\ args.range[k] = RangeArg(t)
          /\ Resolved(t.start).ok /\ Resolved(t.end).ok
          /\ Resolved(t.start).val > Resolved(t.end).val
          /\ slices_specs[k].a = Resolved(t.end).val
          /\ slices_specs[k].b = Resolved(t.start).val + 1

\* build_ranges_from_split_at has returned its list (in slices_specs).
SplitAtReturned == tool = "build_ranges_from_split_at" /\ pc = "returned"

\* The distinct cut indices the split-at tokens resolve to inside [0, n).
ValidCuts ==
    {c \in 0..(Len(msgs) - 1) :
        \E k \in 1..Len(args.split_at) :
            Resolved(args.split_at[k]).ok /\ Resolved(args.split_at[k]).val = c}

\* The indices a range covers.
Covered(r) == {j \in 0..(Len(msgs) - 1) : r.a <= j /\ j < r.b}

\* C3: for every split-at token list over a non-empty conversation of n
\* messages (tokens in or out of range, duplicated, unordered), the ranges
\* returned by build_ranges_from_split_at are pairwise disjoint, consecutive
\* (the first starts at 0, each next one where the previous one ends) and
\* their union is exactly [0, n): every index belongs to exactly one range.
C3_SplitAtPartition ==
    (SplitAtReturned /\ Len(msgs) > 0) =>
        /\ Len(slices_specs) >= 1
        /\ slices_specs[1].a = 0
        /\ slices_specs[Len(slices_specs)].b = Len(msgs)
        /\ \A k \in 1..Len(slices_specs) : slices_specs[k].a < slices_specs[k].b
        /\ \A k \in 1..(Len(slices_specs) - 1) : slices_specs[k + 1].a = slices_specs[k].b
        /\ \A j \in 0..(Len(msgs) - 1) :
              Cardinality({k \in 1..Len(slices_specs) : j \in Covered(slices_specs[k])}) = 1

\* A list with a repeated token, tokens out of order and a token out of range
\* has been cut into two ranges.
C3_Witness ==
    /\ SplitAtReturned
    /\ Len(msgs) > 0
    /\ Len(slices_specs) = 2
    /\ \E i, j \in 1..Len(args.split_at) : i < j /\ args.split_at[i] = args.split_at[j]
    /\ \E i, j \in 1..Len(args.split_at) :
          i < j /\ Resolved(args.split_at[i]).val > Resolved(args.split_at[j]).val
    /\ \E i \in 1..Len(args.split_at) : Resolved(args.split_at[i]).val < 0

\* C4: every valid deduplicated cut index c (0 <= c < n) ends a segment
\* inclusive of itself: some produced range has end_exclusive = c+1 and the
\* next range starts at c+1; so k distinct valid cuts whose largest is less
\* than n-1 produce exactly k+1 ranges; this for all cut sets, including a cut
\* at index 0 and cuts at adjacent indices.
C4_EveryCutEndsASegment ==
    (SplitAtReturned /\ args.split_at # <<>>) =>
        /\ \A c \in ValidCuts :
              \E k \in 1..Len(slices_specs) :
                  /\ slices_specs[k].b = c + 1
                  /\ (c + 1 < Len(msgs)) =>
                        (k < Len(slices_specs) /\ slices_specs[k + 1].a = c + 1)
        /\ (ValidCuts # {} /\ \A c \in ValidCuts : c < Len(msgs) - 1) =>
              Len(slices_specs) = Cardinality(ValidCuts) + 1

\* C5: names are applied positionally to the produced segments: the k-th
\* produced range (0-based, ascending) is named slice_names[k] when
\* k < len(slice_names) and the configured default name otherwise, for every
\* cut list (including lists where some cut produces no segment).
C5_NamesByPosition ==
    SplitAtReturned =>
        \A k \in 1..Len(slices_specs) :
            slices_specs[k].name =
                IF k <= Len(args.slice_names) THEN args.slice_names[k]
                ELSE args.default_slice_name

\* split_convo has finished the named step.
SplitRunPast(steps) == tool = "split_convo" /\ pc \in steps

\* Whether the message at canonical index j holds a marker.
HoldsMarker(j) == \E i \in 1..Len(msgs[j + 1].content) : msgs[j + 1].content[i].m

MarkerIndices == {j \in 0..(Len(msgs) - 1) : HoldsMarker(j)}

\* The name carried by the marker of the message at index j ("" when none).
NameCarried(j) ==
    LET c == msgs[j + 1].content
        first == CHOOSE i \in 1..Len(c) : c[i].m /\ \A h \in 1..(i - 1) : ~c[h].m
    IN  IF IsNone(c[first].g) THEN <<>> ELSE Strip(c[first].g[1])

\* The name C6 expects for a segment that starts at index a: that of the
\* marker just before it, the configured default without one.
NameAfterMarker(a) ==
    IF a = 0 \/ ~HoldsMarker(a - 1) \/ NameCarried(a - 1) = <<>>
    THEN args.default_slice_name
    ELSE NameCarried(a - 1)

\* C6: each segment of the marker flow is named after the marker that
\* immediately precedes it: the segment before the first marker takes the
\* configured default, a segment after a marker named N is named N (default
\* if the marker has no name), the last segment uses the last marker's name,
\* and without markers the single range over the whole sequence is named with
\* the configured default.
C6_NamedAfterPrecedingMarker ==
    /\ (SplitRunPast({"assemble", "done"}) /\ MarkerIndices # {}) =>
          \A k \in 1..Len(ranges) : ranges[k].name = NameAfterMarker(ranges[k].a)
    /\ (SplitRunPast({"done"}) /\ MarkerIndices = {}) =>
          /\ slices = <<Range(0, Len(msgs), args.default_slice_name)>>
          /\ Len(manifest) = 1
          /\ manifest[1].slice = args.default_slice_name

\* The messages of all slice documents, concatenated in order.
RECURSIVE ConcatMessages(_)
ConcatMessages(objs) ==
    IF objs = <<>> THEN <<>> ELSE objs[1].messages \o ConcatMessages(Tail(objs))

\* The sequence obtained by putting the marker messages back at their original
\* indices between the messages of body, from canonical index j on.
RECURSIVE Reinserted(_, _)
Reinserted(body, j) ==
    IF j >= Len(msgs) THEN body
    ELSE IF HoldsMarker(j) THEN <<msgs[j + 1]>> \o Reinserted(body, j + 1)
    ELSE IF body = <<>> THEN <<>>
    ELSE <<body[1]>> \o Reinserted(Tail(body), j + 1)

\* C7: in the marker flow no marker message appears in any produced range,
\* every other message appears in exactly one range, and concatenating the
\* slices' messages in order and re-inserting the marker messages at their
\* original indices gives back the original sequence (markers at any
\* positions: index 0, the last index, adjacent indices).
C7_MarkersDroppedRestKept ==
    /\ SplitRunPast({"assemble", "done"}) =>
          \A j \in 0..(Len(msgs) - 1) :
              Cardinality({k \in 1..Len(slices) : j \in Covered(slices[k])})
                  = IF HoldsMarker(j) THEN 0 ELSE 1
    /\ SplitRunPast({"done"}) =>
          /\ Len(slice_objs) = Len(slices)
          /\ Reinserted(ConcatMessages(slice_objs), 0) = msgs

\* A run with markers at index 0, at the last index and at two adjacent
\* indices, and at least one slice.
C7_Witness ==
    /\ SplitRunPast({"done"})
    /\ Len(msgs) >= 4
    /\ {0, Len(msgs) - 1} \subseteq MarkerIndices
    /\ \E j \in MarkerIndices : j + 1 \in MarkerIndices
    /\ Len(slice_objs) >= 1
    /\ Len(ConcatMessages(slice_objs)) >= 2

\* The bounds of a list of ranges, names left out.
BoundsOf(rs) == [k \in 1..Len(rs) |-> <<rs[k].a, rs[k].b>>]

\* A bound brought into the window [0, n].
Windowed(x) == IF x < 0 THEN 0 ELSE IF x > Len(msgs) THEN Len(msgs) ELSE x

InWindow(rs) ==
    \A k \in 1..Len(rs) : 0 <= rs[k].a /\ rs[k].a < rs[k].b /\ rs[k].b <= Len(msgs)

\* C8: in the range/split-at flow every range of the final list satisfies
\* 0 <= start < end_exclusive <= len(messages) (negative or too large indices
\* included); a range whose clamped bounds collapse is dropped without an
\* error, and the remaining ranges keep their relative order.
C8_ClampedRangesInWindow ==
    /\ SliceRunPast({"names", "assemble", "done"}) =>
          /\ InWindow(clean_specs)
          /\ err = "none"
          /\ BoundsOf(clean_specs) =
                SelectSeq([k \in 1..Len(slices_specs) |->
                              <<Windowed(slices_specs[k].a), Windowed(slices_specs[k].b)>>],
                          LAMBDA ab : ab[1] < ab[2])
    /\ SliceRunPast({"assemble", "done"}) =>
          InWindow(enumerated) /\ BoundsOf(enumerated) = BoundsOf(clean_specs)

\* A negative range collapsed and was dropped, a too large one was clamped and
\* kept.
C8_Witness ==
    /\ SliceRunPast({"done"})
    /\ Len(slices_specs) = 2
    /\ Len(clean_specs) = 1
    /\ slices_specs[1].a < 0
    /\ slices_specs[2].b > Len(msgs)
    /\ clean_specs[1].b = Len(msgs)
    /\ manifest # <<>>

\* How many of the first k ranges carry the base name of the k-th.
Occurrence(base, k) == Cardinality({j \in 1..k : base[j].name = base[k].name})

\* The name C9 expects for the k-th range.
ExpectedName(base, k) ==
    IF Occurrence(base, k) = 1 THEN base[k].name
    ELSE base[k].name \o <<"-">> \o StrOfInt(Occurrence(base, k))

Disambiguated(base, final) ==
    /\ Len(final) = Len(base)
    /\ \A k \in 1..Len(base) :
          final[k] = Range(base[k].a, base[k].b, ExpectedName(base, k))

\* C9: over the final range list, in range order, the first range carrying a
\* base name keeps it, the k-th (k >= 2) carrying the same base name is renamed
\* base + "-k" ("chat", "chat" become "chat", "chat-2"); a base name occurring
\* once is unchanged; bounds and order are not altered. Both tools.
C9_SuffixByOccurrence ==
    /\ SliceRunPast({"assemble", "done"}) => Disambiguated(clean_specs, enumerated)
    /\ (SplitRunPast({"assemble", "done"}) /\ splits # <<>>) => Disambiguated(ranges, slices)

\* Two ranges named "chat" have become "chat" and "chat-2".
C9_Witness ==
    /\ SliceRunPast({"done"})
    /\ Len(clean_specs) = 2
    /\ clean_specs[1].name = StrChat
    /\ clean_specs[2].name = StrChat
    /\ enumerated[1].name = <<"c", "h", "a", "t">>
    /\ enumerated[2].name = <<"c", "h", "a", "t", "-", "2">>

\* The record of the k-th normalized message as built from its node.
NodeOf(k) == IF tool = "slice_by_ranges" THEN msgs[k].m ELSE msgs[k]

\* The sort key C10 states: the timestamp, zero when it is missing.
TimeOf(k) == IF NodeOf(k).create_time = None THEN 0 ELSE NodeOf(k).create_time[1]

\* The position, in the source mapping, of the node the k-th message is from.
SourcePos(k) ==
    CHOOSE i \in 1..Len(raw.mapping[1]) : NodeOf(k).content = <<Text(Letter(i))>>

\* The positions of the mapping's nodes that carry a message.
MessageNodes == {i \in 1..Len(raw.mapping[1]) : raw.mapping[1][i].message # None}

\* C10: for every mapping-tree conversation the normalized sequence is ordered
\* by non-decreasing timestamp, a missing timestamp counting as zero; messages
\* with equal (or both missing) timestamps keep their encounter order from the
\* source mapping; indices 0..n-1 are assigned in that order. Both tools.
C10_SortedStableIndexed ==
    (pc # "load" /\ ~HasMessagesList(raw) /\ HasMappingDict(raw)) =>
        /\ {SourcePos(k) : k \in 1..Len(msgs)} = MessageNodes
        /\ Len(msgs) = Cardinality(MessageNodes)
        /\ \A k \in 1..Len(msgs) :
              NodeOf(k).create_time = raw.mapping[1][SourcePos(k)].message[1].create_time
        /\ \A i, j \in 1..Len(msgs) : i < j => TimeOf(i) <= TimeOf(j)
        /\ \A i, j \in 1..Len(msgs) :
              (i < j /\ TimeOf(i) = TimeOf(j)) => SourcePos(i) < SourcePos(j)
        /\ tool = "slice_by_ranges" => \A k \in 1..Len(msgs) : msgs[k].index = k - 1

\* Three nodes with timestamps 30, 10, 20 have been put in the order 10, 20, 30
\* with indices 0, 1, 2.
C10_Witness ==
    /\ tool = "slice_by_ranges"
    /\ pc # "load"
    /\ HasMappingDict(raw)
    /\ Len(raw.mapping[1]) = 3
    /\ MessageNodes = {1, 2, 3}
    /\ [i \in 1..3 |-> raw.mapping[1][i].message[1].create_time] = <<Some(30), Some(10), Some(20)>>
    /\ [k \in 1..Len(msgs) |-> msgs[k].m.create_time] = <<Some(10), Some(20), Some(30)>>
    /\ [k \in 1..Len(msgs) |-> msgs[k].index] = <<0, 1, 2>>

\* C11: for every flat-list conversation of n messages, normalization keeps
\* all n entries in source order and the message at position k carries index
\* k: the indices are exactly 0..n-1, unique and without gaps (timestamps of
\* the entries play no part).
C11_FlatOrderAndIndices ==
    (SliceRunPast({"ranges", "clean", "names", "assemble", "done"}) /\ HasMessagesList(raw)) =>
        /\ Len(msgs) = Len(raw.messages[1])
        /\ \A k \in 1..Len(msgs) :
              /\ msgs[k].m = raw.messages[1][k]
              /\ msgs[k].index = k - 1
        /\ {msgs[k].index : k \in 1..Len(msgs)} = 0..(Len(msgs) - 1)

\* A flat list of at least three entries with descending timestamps has been
\* normalized.
C11_Witness ==
    /\ SliceRunPast({"ranges"})
    /\ HasMessagesList(raw)
    /\ Len(raw.messages[1]) >= 3
    /\ \A k \in 1..(Len(raw.messages[1]) - 1) :
          SortKey(raw.messages[1][k]) > SortKey(raw.messages[1][k + 1])
    /\ Len(msgs) = Len(raw.messages[1])
    /\ msgs[Len(msgs)].index = Len(msgs) - 1

\* index_for_token has returned or raised.
TokenCallDone == tool = "index_for_token" /\ pc \in {"returned", "raised"}

\* The positions of the messages whose original id is x; a message without
\* an original id has none.
WithOrigId(x) == {k \in 1..Len(msgs) : msgs[k].orig_id = Some(x)}

\* C12: an integer token resolves to that integer; a token id:X resolves to
\* the canonical index of the first message whose original id equals X and
\* fails with the not-found error exactly when no message has that original
\* id (a message without an original id is matched by no id reference); a
\* token that is neither fails with the bad-token error.
C12_TokenResolution ==
    TokenCallDone =>
        \A c \in TokenCases :
            (c.tok = call_args.token) =>
                IF c.kind = "int" THEN result = Returned(c.n)
                ELSE IF c.kind = "id"
                THEN IF WithOrigId(c.x) = {}
                     THEN result = Raised("Message ID not found")
                     ELSE result =
                            Returned(msgs[CHOOSE k \in WithOrigId(c.x) :
                                             \A j \in WithOrigId(c.x) : k <= j].index)
                ELSE result = Raised("Bad boundary token")

\* extract_conversation has gone through its selection and the process has
\* exited.
ExtractExited == tool = "extract_conversation" /\ pc = "exited"

\* C13: when no conversation matches the filters the process exits with
\* status 2; when the selection index is negative or >= the number of matches
\* it exits with status 3 after listing at most the first 20 candidates; when
\* a match is selected it writes the conversation and exits with status 0.
C13_ExitStatuses ==
    ExtractExited =>
        IF matches = <<>> THEN status = Some(2) /\ written = None
        ELSE IF xargs.index < 0 \/ xargs.index >= Len(matches)
        THEN /\ status = Some(3)
             /\ written = None
             /\ Len(listing) = Min(Len(matches), 20)
             /\ \A k \in 1..Len(listing) : listing[k].source_index = matches[k].i
        ELSE /\ status = Some(0)
             /\ written = Some(matches[xargs.index + 1].conv)

\* One of the two slicing tools has gone past its normalization step, which
\* returned or raised.
Normalized == tool \in {"slice_by_ranges", "split_convo"} /\ pc # "load"

\* The schema error of the tool that runs.
SchemaError ==
    IF tool = "slice_by_ranges" THEN "Expected 'messages' (list) or 'mapping' (dict)"
    ELSE "Could not locate messages array"

\* The normalized messages are the entries of the flat list, in order.
FromFlatList ==
    /\ Len(msgs) = Len(raw.messages[1])
    /\ \A k \in 1..Len(msgs) : NodeOf(k) = raw.messages[1][k]

\* The normalized messages are those of the nodes of the mapping that carry
\* a message.
FromMapping ==
    /\ Len(msgs) = Cardinality(MessageNodes)
    /\ {SourcePos(k) : k \in 1..Len(msgs)} = MessageNodes
    /\ \A k \in 1..Len(msgs) :
          NodeOf(k).create_time = raw.mapping[1][SourcePos(k)].message[1].create_time

\* C14: a record whose `messages` is a list is normalized from the flat list,
\* even when a `mapping` is present too; a record without a list-valued
\* `messages` but with a dict-valued `mapping` is normalized from the mapping
\* tree; a record with neither fails with the schema error and yields no
\* conversation. Both tools.
C14_ShapeDispatch ==
    Normalized =>
        IF HasMessagesList(raw) THEN err # SchemaError /\ FromFlatList
        ELSE IF HasMappingDict(raw) THEN err # SchemaError /\ FromMapping
        ELSE /\ pc = "failed"
             /\ err = SchemaError
             /\ msgs = <<>>
             /\ slice_objs = <<>>
             /\ manifest = <<>>

\* A document holding both a flat list of two entries and a mapping of three
\* nodes has been normalized to two messages by slice_by_ranges.
C14_Witness ==
    /\ tool = "slice_by_ranges"
    /\ pc = "ranges"
    /\ HasMessagesList(raw)
    /\ HasMappingDict(raw)
    /\ Len(raw.mapping[1]) = 3
    /\ Len(msgs) = 2

\* conv_matches_filters has returned or raised.
FilterCallDone == tool = "conv_matches_filters" /\ pc \in {"returned", "raised"}

\* The title predicate: case-insensitive containment in the title.
TitleHolds(conv, sub) == Contains(Lower(sub), Lower(conv_title(conv)))

\* The id predicate: equality with the first present id-like key.
IdHolds(conv, cid) == cid = conv_id(conv)

\* The date predicates: the start time resolves and is not before `after`,
\* not after `before`.
AfterHolds(conv, after) ==
    ~IsNone(conv_start_time(conv)) /\ conv_start_time(conv)[1].t >= after.t

BeforeHolds(conv, before) ==
    ~IsNone(conv_start_time(conv)) /\ conv_start_time(conv)[1].t <= before.t

\* The snippet predicate: a match in a searchable string of some message.
SnippetHolds(conv, patt) == SnippetFound(conv, patt)

\* Every supplied predicate holds.
AllSuppliedHold(c) ==
    /\ ~IsNone(c.title_sub) => TitleHolds(c.conv, c.title_sub[1])
    /\ ~IsNone(c.cid) => IdHolds(c.conv, c.cid[1])
    /\ ~IsNone(c.after) => AfterHolds(c.conv, c.after[1])
    /\ ~IsNone(c.before) => BeforeHolds(c.conv, c.before[1])
    /\ ~IsNone(c.snippet) => SnippetHolds(c.conv, c.snippet[1])

\* The conversation has no explicit time field that converts and no message
\* with a time that converts.
NoTimeAnywhere(conv) ==
    /\ \A k \in 1..Len(conv.times) :
          IsNone(conv.times[k]) \/ IsNone(ParseTime(conv.times[k][1]))
    /\ \A k \in 1..Len(MessagesOf(conv)) : \A j \in 1..3 :
          \/ IsNone(MessagesOf(conv)[k].tskeys[j])
          \/ IsNone(ParseTime(MessagesOf(conv)[k].tskeys[j][1]))

\* C15: conv_matches_filters returns true exactly when every supplied
\* predicate holds (title substring, exact id, after/before date, snippet,
\* taken together), and leaves the conversation as it was; when an after or
\* before date is supplied and the conversation has no resolvable start time
\* the result is false whatever the other predicates.
C15_ConjunctionOfFilters ==
    FilterCallDone =>
        /\ result = BoolReturned(AllSuppliedHold(call_args))
        /\ ((~IsNone(call_args.after) \/ ~IsNone(call_args.before))
               /\ NoTimeAnywhere(call_args.conv)) => result = BoolReturned(FALSE)

\* The final range list of the tool that runs.
FinalRanges == IF tool = "slice_by_ranges" THEN enumerated ELSE slices

\* The n-th slice document and manifest entry are those C16 describes for the
\* n-th range [a, b) of the final list.
AssembledAsStated(n) ==
    LET r == FinalRanges[n]
    IN  /\ slice_objs[n].slice = r.name
        /\ slice_objs[n].sequence = n
        /\ slice_objs[n].messages = [k \in 1..(r.b - r.a) |-> msgs[r.a + k]]
        /\ "range_indices" \in DOMAIN slice_objs[n]
        /\ slice_objs[n].range_indices = <<r.a, r.b - 1>>
        /\ manifest[n].slice = r.name
        /\ manifest[n].sequence = n
        /\ manifest[n].approx_message_range = <<r.a, r.b - 1>>
        /\ Len(slice_objs[n].messages)
              = manifest[n].approx_message_range[2] - manifest[n].approx_message_range[1] + 1

\* C16: for every slice produced by either slicing flow from a range [a, b),
\* the slice has the sequence number of its 1-based position in the final
\* range list, its messages are the canonical messages a..b-1 in order, the
\* range recorded (range_indices in the slice, approx_message_range in the
\* manifest entry) is the inclusive pair [a, b-1], so that the number of
\* messages is end - start + 1, and the manifest holds one entry per slice,
\* in sequence order (stated for the runs on a conversation that has
\* messages).
C16_SlicesAndManifest ==
    ((SliceRunPast({"done"}) \/ SplitRunPast({"done"})) /\ Len(msgs) > 0) =>
        /\ Len(slice_objs) = Len(FinalRanges)
        /\ Len(manifest) = Len(FinalRanges)
        /\ \A n \in 1..Len(FinalRanges) : AssembledAsStated(n)

\* The final range list has been built.
FinalRangesBuilt == SliceRunPast({"assemble", "done"}) \/ SplitRunPast({"assemble", "done"})

\* C17: after name disambiguation the slice names of the final range list are
\* pairwise distinct, for every list of base names, also base names that
\* already end in a numeric suffix such as "chat-2". Both tools.
C17_DistinctNames ==
    FinalRangesBuilt =>
        \A i, j \in 1..Len(FinalRanges) :
            i # j => FinalRanges[i].name # FinalRanges[j].name

\* Every --range argument of the run is accepted by parse_range.
RangesParse == \A k \in 1..Len(args.range) : parse_range(args.range[k], msgs).ok

\* The explicit ranges as parse_range returns them, in the order given.
ExplicitRanges == [k \in 1..Len(args.range) |-> parse_range(args.range[k], msgs).range]

\* Two ranges share a message position.
Overlap(r, s) == Max(r.a, s.a) < Min(r.b, s.b)

\* C18: when at least one explicit range is supplied together with split-at
\* tokens, slices_specs is the list of the explicit ranges in the order given,
\* overlapping or not: the split-at tokens and the slice names are not
\* resolved, so the step fails only on a range argument and never on a
\* split-at token; when neither explicit ranges nor split-at tokens are
\* supplied, slices_specs is the single range [0, len(messages)) named "whole".
C18_ExplicitRangesAlone ==
    /\ (SliceRunPast({"clean", "names", "assemble", "done", "failed"})
            /\ (HasMessagesList(raw) \/ HasMappingDict(raw))
            /\ args.range # <<>>) =>
          IF RangesParse
          THEN /\ pc # "failed"
               /\ err = "none"
               /\ slices_specs = ExplicitRanges
          ELSE /\ pc = "failed"
               /\ err = parse_range(args.range[FirstBadRange(args.range, msgs)], msgs).error
    /\ (SliceRunPast({"clean", "names", "assemble", "done", "failed"})
            /\ (HasMessagesList(raw) \/ HasMappingDict(raw))
            /\ args.range = <<>> /\ args.split_at = <<>>) =>
          /\ pc # "failed"
          /\ slices_specs = <<Range(0, Len(msgs), StrWhole)>>

\* Two overlapping explicit ranges given with a split-at token that resolves to
\* no message and with slice names: the ranges are kept, the later-starting
\* one first.
C18_Witness ==
    /\ SliceRunPast({"clean"})
    /\ Len(args.range) = 2
    /\ args.split_at # <<>>
    /\ ~index_for_token(msgs, StrTok(args.split_at[1])).ok
    /\ args.slice_names # <<>>
    /\ Len(slices_specs) = 2
    /\ Overlap(slices_specs[1], slices_specs[2])
    /\ slices_specs[1].a > slices_specs[2].a

====
